---------------------------- MODULE Spec2Model ----------------------------
(***************************************************************************)
(* Model of the SEO transformation-and-validation engine of creativeia:    *)
(* the keyphrase registry and publication flow of PublicationManager, the  *)
(* duplicate store of ReviewManager, the Yoast validator and the title and *)
(* meta-description composers.                                             *)
(*                                                                         *)
(* Text is modelled as Python models it: a str is a sequence of Unicode    *)
(* code points (<<99, 97>> is "ca").  The inputs stay inside Latin-1, where*)
(* lower(), upper() and title() map one code point to one code point.      *)
(* None is the one-element sequence NoneVal, which is no str.              *)
(***************************************************************************)
EXTENDS Integers, Sequences, FiniteSets, TLC

(***************************************************************************)
(* Python str primitives                                                   *)
(***************************************************************************)
NoneVal == << -1 >>

IsNone(s) == s = NoneVal

Min2(a, b) == IF a <= b THEN a ELSE b

Max2(a, b) == IF a >= b THEN a ELSE b

\* str.isspace() of one character (also what \s matches and split()/strip() cut)
IsSpace(c) == c \in ((9..13) \cup (28..32) \cup {133, 160})

IsUpperC(c) == c \in ((65..90) \cup (192..214) \cup (216..222))

IsLowerC(c) == c \in ((97..122) \cup (224..246) \cup (248..254))

IsCased(c) == IsUpperC(c) \/ IsLowerC(c)

IsDigitC(c) == c \in 48..57

\* \w of the re module on str patterns: what str.isalnum() accepts (letters,
\* digits, superscripts, fractions) and the underscore
IsWordC(c) ==
    IsCased(c) \/ IsDigitC(c) \/ c \in {95, 170, 178, 179, 181, 185, 186, 188, 189, 190, 223, 255}

LowerC(c) == IF IsUpperC(c) THEN c + 32 ELSE c

UpperC(c) == IF IsLowerC(c) THEN c - 32 ELSE c

\* str.lower()
Lower(s) == [i \in 1..Len(s) |-> LowerC(s[i])]

\* str.title(): a cased character is upper-cased after an uncased one (or at
\* the start) and lower-cased after a cased one; digits are uncased
TitleCase(s) ==
    [i \in 1..Len(s) |->
        IF ~IsCased(s[i]) THEN s[i]
        ELSE IF i > 1 /\ IsCased(s[i-1]) THEN LowerC(s[i]) ELSE UpperC(s[i])]

\* s[a:b] with 0 <= a, 0 <= b (Python clamps both to len(s))
Slice(s, a, b) == SubSeq(s, Min2(a, Len(s)) + 1, Min2(b, Len(s)))

\* s[:n]
Prefix(s, n) == Slice(s, 0, n)

\* s.startswith(p)
StartsWith(s, p) == Len(p) <= Len(s) /\ SubSeq(s, 1, Len(p)) = p

\* p in s
Contains(s, p) == \E i \in 0..(Len(s) - Len(p)) : SubSeq(s, i + 1, i + Len(p)) = p

\* s.strip(chars): cut the characters of the set cs from both ends
StripChars(s, cs) ==
    LET keep == {i \in 1..Len(s) : s[i] \notin cs}
        lo   == CHOOSE i \in keep : \A j \in keep : i <= j
        hi   == CHOOSE i \in keep : \A j \in keep : i >= j
    IN  IF keep = {} THEN << >> ELSE SubSeq(s, lo, hi)

SpaceChars == (9..13) \cup (28..32) \cup {133, 160}

\* s.strip()
Strip(s) == StripChars(s, SpaceChars)

\* the least element of a non-empty set of integers, and 0 for the empty set
MinOf(S) == IF S = {} THEN 0 ELSE CHOOSE x \in S : \A y \in S : x <= y

\* the elements of a finite set of integers in increasing order
SortedSeq(S) ==
    [k \in 1..Cardinality(S) |-> CHOOSE x \in S : Cardinality({y \in S : y <= x}) = k]

\* ''.join(pieces[lo..hi]), halving the range
RECURSIVE JoinRange(_, _, _)
JoinRange(pieces, lo, hi) ==
    IF lo > hi THEN << >>
    ELSE IF lo = hi THEN pieces[lo]
    ELSE LET mid == (lo + hi) \div 2
         IN  JoinRange(pieces, lo, mid) \o JoinRange(pieces, mid + 1, hi)

\* ''.join(pieces)
Join(pieces) == JoinRange(pieces, 1, Len(pieces))

\* re.sub(r'\s+', ' ', s): every maximal run of whitespace becomes one space
CollapseWs(s) ==
    Join([i \in 1..Len(s) |->
            IF ~IsSpace(s[i]) THEN << s[i] >>
            ELSE IF i > 1 /\ IsSpace(s[i-1]) THEN << >>
            ELSE << 32 >>])

\* where the words of s.split() start: a non-space at the start or after a space
WordStarts(s) ==
    {i \in 1..Len(s) : ~IsSpace(s[i]) /\ (i = 1 \/ IsSpace(s[i-1]))}

\* the last character of the word that starts at i
WordEnd(s, i) ==
    LET stop == MinOf({j \in i..Len(s) : IsSpace(s[j])})
    IN  IF stop = 0 THEN Len(s) ELSE stop - 1

\* s.split(): the maximal runs of non-whitespace, in order
SplitWs(s) ==
    LET starts == SortedSeq(WordStarts(s))
    IN  [k \in 1..Len(starts) |-> SubSeq(s, starts[k], WordEnd(s, starts[k]))]

\* len(s.split())
WordCount(s) == Cardinality(WordStarts(s))

\* \b at the gap before position i (1..Len(s)+1): exactly one side is a \w
WordBoundary(s, i) ==
    LET before == i > 1 /\ IsWordC(s[i-1])
        after  == i <= Len(s) /\ IsWordC(s[i])
    IN  before # after

\* re.sub(rf'\b{re.escape(w)}\b', '', s, flags=re.IGNORECASE): scanning from
\* the left, every non-overlapping occurrence of w between two word
\* boundaries is dropped
WordMatchAt(s, w, i) ==
    /\ i + Len(w) - 1 <= Len(s)
    /\ Lower(SubSeq(s, i, i + Len(w) - 1)) = Lower(w)
    /\ WordBoundary(s, i)
    /\ WordBoundary(s, i + Len(w))

RECURSIVE RemoveWordFrom(_, _, _)
RemoveWordFrom(s, w, i) ==
    LET m == MinOf({j \in i..Len(s) : WordMatchAt(s, w, j)})
    IN  IF m = 0 THEN SubSeq(s, i, Len(s))
        ELSE SubSeq(s, i, m - 1) \o RemoveWordFrom(s, w, m + Len(w))

RemoveWord(s, w) == RemoveWordFrom(s, w, 1)

RECURSIVE RemoveWords(_, _)
RemoveWords(s, ws) ==
    IF ws = << >> THEN s ELSE RemoveWords(RemoveWord(s, Head(ws)), Tail(ws))

\* c * n
Rep(c, n) == [i \in 1..n |-> c]

(***************************************************************************)
(* TitleComposer: PublicationManager._optimize_seo_title                   *)
(***************************************************************************)
MinTitleLen == 30

MaxTitleLen == 60

\* 57, "para deixar espaco para ..."
TitleCutBudget == 57

\* remaining > 10
TitleMinRemaining == 10

\* " - "
TitleSep ==
    <<32, 45, 32>>

\* "An\xe1lise Completa"
TitleDefaultTail ==
    <<65, 110, 225, 108, 105, 115, 101, 32, 67, 111, 109, 112, 108, 101, 116, 97>>

\* "..."
Ellipsis ==
    <<46, 46, 46>>

\* " Review"
TitleReviewTail ==
    <<32, 82, 101, 118, 105, 101, 119>>

\* " - Melhor Custo Benef\xedcio"
TitleExt1 ==
    <<32, 45, 32, 77, 101, 108, 104, 111, 114, 32, 67, 117, 115, 116, 111, 32, 66, 101, 110,
    101, 102, 237, 99, 105, 111>>

\* " - An\xe1lise e Pre\xe7os"
TitleExt2 ==
    <<32, 45, 32, 65, 110, 225, 108, 105, 115, 101, 32, 101, 32, 80, 114, 101, 231, 111, 115>>

\* " - Guia de Compra"
TitleExt3 ==
    <<32, 45, 32, 71, 117, 105, 97, 32, 100, 101, 32, 67, 111, 109, 112, 114, 97>>

\* " - Review Completa"
TitleExt4 ==
    <<32, 45, 32, 82, 101, 118, 105, 101, 119, 32, 67, 111, 109, 112, 108, 101, 116, 97>>

TitleExtensions == << TitleExt1, TitleExt2, TitleExt3, TitleExt4 >>

\* " - An\xe1lise Creative C\xf3pias"
TitleFallbackTail ==
    <<32, 45, 32, 65, 110, 225, 108, 105, 115, 101, 32, 67, 114, 101, 97, 116, 105, 118, 101,
    32, 67, 243, 112, 105, 97, 115>>

\* ' -|:' and ' -', the character sets of the two strip() calls
TitleCleanStrip == {32, 45, 124, 58}

TitleSuffixStrip == {32, 45}

\* lines 336-351: the title with the keyphrase put first
TitleWithKeyphraseFirst(title, focus_keyphrase) ==
    LET keyphrase_title == TitleCase(focus_keyphrase)
        title_clean ==
            StripChars(CollapseWs(RemoveWords(title, SplitWs(focus_keyphrase))),
                       TitleCleanStrip)
    IN  IF StartsWith(Lower(title), Lower(focus_keyphrase)) THEN title
        ELSE IF title_clean # << >> THEN keyphrase_title \o TitleSep \o title_clean
        ELSE keyphrase_title \o TitleSep \o TitleDefaultTail

\* lines 354-362: a title over 60 characters is cut after the keyphrase
TitleCut(optimized, focus_keyphrase) ==
    LET keyphrase_title == TitleCase(focus_keyphrase)
        keyphrase_len   == Len(keyphrase_title)
        remaining       == TitleCutBudget - keyphrase_len
        suffix == StripChars(Slice(optimized, keyphrase_len, keyphrase_len + remaining),
                             TitleSuffixStrip)
    IN  IF remaining > TitleMinRemaining
        THEN keyphrase_title \o suffix \o Ellipsis
        ELSE keyphrase_title \o TitleReviewTail

\* lines 364-377: the loop over the extensions leaves after its first round
\* (the break is not under the if), so only the first extension is tried
TitleExtend(optimized) ==
    LET test_title == optimized \o TitleExtensions[1]
    IN  IF MinTitleLen <= Len(test_title) /\ Len(test_title) <= MaxTitleLen
        THEN test_title ELSE optimized

\* PublicationManager._optimize_seo_title; a title that is None raises inside
\* the try and the except branch returns the fallback title
OptimizeSeoTitle(title, focus_keyphrase) ==
    IF IsNone(title) THEN TitleCase(focus_keyphrase) \o TitleFallbackTail
    ELSE LET optimized == TitleWithKeyphraseFirst(title, focus_keyphrase)
             sized == IF Len(optimized) > MaxTitleLen
                         THEN TitleCut(optimized, focus_keyphrase)
                      ELSE IF Len(optimized) < MinTitleLen
                         THEN TitleExtend(optimized)
                      ELSE optimized
         IN  Prefix(sized, MaxTitleLen)

(***************************************************************************)
(* MetaComposer: PublicationManager._optimize_meta_description             *)
(***************************************************************************)
MinMetaLen == 120

MaxMetaLen == 155

\* meta_desc[:152] + "..."
MetaCutLen == 152

\* len(meta_desc) < 50 and len(p.strip()) > 50
MetaShortLen == 50

\* base_text[:100]
MetaBaseLen == 100

\* "Conhe\xe7a o " (10)
MetaIntroHead ==
    <<67, 111, 110, 104, 101, 231, 97, 32, 111, 32>>

\* " e suas principais caracter\xedsticas." (35)
MetaIntroTail ==
    <<32, 101, 32, 115, 117, 97, 115, 32, 112, 114, 105, 110, 99, 105, 112, 97, 105, 115, 32,
    99, 97, 114, 97, 99, 116, 101, 114, 237, 115, 116, 105, 99, 97, 115, 46>>

\* ": " (2)
MetaColon ==
    <<58, 32>>

\* ". Guia completo com an\xe1lise detalhada." (38)
MetaGuideTail ==
    <<46, 32, 71, 117, 105, 97, 32, 99, 111, 109, 112, 108, 101, 116, 111, 32, 99, 111, 109,
    32, 97, 110, 225, 108, 105, 115, 101, 32, 100, 101, 116, 97, 108, 104, 97, 100, 97, 46>>

\* " Saiba tudo sobre " (18)
MetaPadHead ==
    <<32, 83, 97, 105, 98, 97, 32, 116, 117, 100, 111, 32, 115, 111, 98, 114, 101, 32>>

\* " neste guia completo." (21)
MetaPadTail ==
    <<32, 110, 101, 115, 116, 101, 32, 103, 117, 105, 97, 32, 99, 111, 109, 112, 108, 101, 116,
    111, 46>>

\* ": an\xe1lise completa com caracter\xedsticas, pre\xe7os e onde comprar. Guia
\* definitivo para sua escolha ideal." (102)
MetaForcedTail ==
    <<58, 32, 97, 110, 225, 108, 105, 115, 101, 32, 99, 111, 109, 112, 108, 101, 116, 97, 32,
    99, 111, 109, 32, 99, 97, 114, 97, 99, 116, 101, 114, 237, 115, 116, 105, 99, 97, 115, 44,
    32, 112, 114, 101, 231, 111, 115, 32, 101, 32, 111, 110, 100, 101, 32, 99, 111, 109, 112,
    114, 97, 114, 46, 32, 71, 117, 105, 97, 32, 100, 101, 102, 105, 110, 105, 116, 105, 118,
    111, 32, 112, 97, 114, 97, 32, 115, 117, 97, 32, 101, 115, 99, 111, 108, 104, 97, 32, 105,
    100, 101, 97, 108, 46>>

\* " Confira agora!" (15)
MetaConfira ==
    <<32, 67, 111, 110, 102, 105, 114, 97, 32, 97, 103, 111, 114, 97, 33>>

\* ": guia completo com an\xe1lise detalhada, caracter\xedsticas principais e onde
\* comprar. Confira agora!" (96)
MetaFallbackTail ==
    <<58, 32, 103, 117, 105, 97, 32, 99, 111, 109, 112, 108, 101, 116, 111, 32, 99, 111, 109,
    32, 97, 110, 225, 108, 105, 115, 101, 32, 100, 101, 116, 97, 108, 104, 97, 100, 97, 44, 32,
    99, 97, 114, 97, 99, 116, 101, 114, 237, 115, 116, 105, 99, 97, 115, 32, 112, 114, 105,
    110, 99, 105, 112, 97, 105, 115, 32, 101, 32, 111, 110, 100, 101, 32, 99, 111, 109, 112,
    114, 97, 114, 46, 32, 67, 111, 110, 102, 105, 114, 97, 32, 97, 103, 111, 114, 97, 33>>

\* the first '>' of s at or after position i, or 0
FirstGt(s, i) == MinOf({j \in i..Len(s) : s[j] = 62})

\* <[^>]+> matches at i: a '<', at least one character that is no '>', and
\* the first '>' after them
TagAt(s, i) == s[i] = 60 /\ FirstGt(s, i + 1) >= i + 2

\* re.sub(r'<[^>]+>', '', s): every match is dropped, the scan going on after it
RECURSIVE StripTagsFrom(_, _)
StripTagsFrom(s, i) ==
    LET a == MinOf({j \in i..Len(s) : TagAt(s, j)})
    IN  IF a = 0 THEN SubSeq(s, i, Len(s))
        ELSE SubSeq(s, i, a - 1) \o StripTagsFrom(s, FirstGt(s, a + 1) + 1)

StripTags(s) == StripTagsFrom(s, 1)

\* s.split('\n\n'): cut at every "\n\n", found from the left
RECURSIVE SplitParasFrom(_, _)
SplitParasFrom(s, i) ==
    LET m == MinOf({j \in i..(Len(s) - 1) : s[j] = 10 /\ s[j+1] = 10})
    IN  IF m = 0 THEN << SubSeq(s, i, Len(s)) >>
        ELSE << SubSeq(s, i, m - 1) >> \o SplitParasFrom(s, m + 2)

SplitParas(s) == SplitParasFrom(s, 1)

LongPara(p) == Len(Strip(p)) > MetaShortLen

\* lines 436-441: the description synthesised from the body's first paragraph
\* of more than 50 characters, or from the templated introduction
MetaSynthesize(focus_keyphrase, content) ==
    LET paragraphs == SelectSeq(SplitParas(StripTags(content)), LongPara)
        base_text  == IF paragraphs # << >> THEN Strip(paragraphs[1])
                      ELSE MetaIntroHead \o focus_keyphrase \o MetaIntroTail
    IN  focus_keyphrase \o MetaColon \o Prefix(base_text, MetaBaseLen) \o MetaGuideTail

\* lines 444-452: keyphrase prefixed when absent, padded under 120, cut over 155
MetaWithKeyphrase(meta_desc, focus_keyphrase) ==
    IF Contains(Lower(meta_desc), Lower(focus_keyphrase)) THEN meta_desc
    ELSE focus_keyphrase \o TitleSep \o meta_desc

MetaPad(meta_desc, focus_keyphrase) ==
    IF Len(meta_desc) < MinMetaLen
    THEN meta_desc \o MetaPadHead \o focus_keyphrase \o MetaPadTail
    ELSE meta_desc

MetaCut(meta_desc) ==
    IF Len(meta_desc) > MaxMetaLen
    THEN Prefix(meta_desc, MetaCutLen) \o Ellipsis
    ELSE meta_desc

\* lines 455-463: the forced text when the length is still out of range
MetaForce(meta_desc, focus_keyphrase) ==
    LET forced == focus_keyphrase \o MetaForcedTail
    IN  IF Len(meta_desc) >= MinMetaLen /\ Len(meta_desc) <= MaxMetaLen THEN meta_desc
        ELSE IF Len(forced) > MaxMetaLen THEN Prefix(forced, MetaCutLen) \o Ellipsis
        ELSE IF Len(forced) < MinMetaLen THEN forced \o MetaConfira
        ELSE forced

\* PublicationManager._optimize_meta_description; a body that is None raises
\* in re.sub and the except branch returns the fallback text
OptimizeMetaDescription(meta_desc, focus_keyphrase, content) ==
    LET absent == IsNone(meta_desc) \/ meta_desc = << >> \/ Len(meta_desc) < MetaShortLen
    IN  IF absent /\ IsNone(content) THEN focus_keyphrase \o MetaFallbackTail
        ELSE LET m0 == IF absent THEN MetaSynthesize(focus_keyphrase, content)
                       ELSE meta_desc
             IN  MetaForce(MetaCut(MetaPad(MetaWithKeyphrase(m0, focus_keyphrase),
                                           focus_keyphrase)),
                           focus_keyphrase)

(***************************************************************************)
(* ConstraintValidator: PublicationManager._validate_yoast_green_criteria  *)
(*                                                                         *)
(* The validator reads the body only through the values it measures on it  *)
(* (word_count, keyword_count, the sentence list, ...).  A body is given   *)
(* here by those measurements, a record                                    *)
(*   [none, kw_first_100, word_count, internal_link, external_link,        *)
(*    keyword_count, sentences, transition_count, consecutive_count,       *)
(*    heading_kw]                                                          *)
(* where none says that content is None.                                   *)
(***************************************************************************)
\* word_count >= 300
MinWords == 300

\* len(focus_keyphrase) >= 3
MinKeyphraseLen == 3

\* score >= 90
GreenScore == 90

\* transition_ratio >= 25
TransitionPercent == 25

\* 0.5 <= keyword_density <= 2.5, in tenths of a percent
MinDensityTenths == 5

MaxDensityTenths == 25

\* the checks in the order the code fills the dict
CheckNames ==
    << "focus_keyword", "keyword_in_title", "title_length", "keyword_in_meta",
       "meta_length", "keyword_first_100", "min_words", "internal_link",
       "external_link", "image_alt", "keyword_density", "transition_words",
       "no_consecutive_sentences", "keyphrase_in_heading", "keyphrase_in_slug" >>

\* the checks whose failure appends a message to validation_errors, in the
\* order of the appends; image_alt and keyphrase_in_slug append none
MessageChecks ==
    << "focus_keyword", "keyword_in_title", "title_length", "keyword_in_meta",
       "meta_length", "keyword_first_100", "min_words", "internal_link",
       "external_link", "keyword_density", "transition_words",
       "no_consecutive_sentences", "keyphrase_in_heading" >>

\* "CRITICO: Focus keyword nao definida - publicacao bloqueada"
CriticalMessage == "CRITICAL_focus_keyword"

\* bool(s) of a str or None
Truthy(s) == ~IsNone(s) /\ s # << >>

\* lines 1567-1569: the temporary slug keeps a-z, 0-9 and '-', a space
\* having become '-'; the check is that something is left
TempSlugNonEmpty(focus_keyphrase) ==
    \E i \in 1..Len(focus_keyphrase) :
        LET c == LowerC(focus_keyphrase[i])
        IN  c = 32 \/ c = 45 \/ c \in 97..122 \/ c \in 48..57

\* lines 1511-1513: (keyword_count / word_count) * 100 within [0.5, 2.5]
DensityOk(keyword_count, word_count) ==
    /\ word_count > 0
    /\ keyword_count * 1000 >= MinDensityTenths * word_count
    /\ keyword_count * 1000 <= MaxDensityTenths * word_count

\* lines 1532-1533: (transition_count / len(sentences)) * 100 >= 25
TransitionOk(transition_count, sentences) ==
    sentences > 0 /\ transition_count * 100 >= TransitionPercent * sentences

\* lines 1459-1569: the checks dict
YoastChecks(body, focus_keyphrase, title, meta_description) ==
    LET has == Truthy(focus_keyphrase)
        kc  == IF has THEN body.keyword_count ELSE 0
    IN  [focus_keyword    |-> has /\ Len(focus_keyphrase) >= MinKeyphraseLen,
         keyword_in_title |-> has /\ Contains(Lower(title), Lower(focus_keyphrase)),
         title_length     |-> MinTitleLen <= Len(title) /\ Len(title) <= MaxTitleLen,
         keyword_in_meta  |-> has /\ Contains(Lower(meta_description), Lower(focus_keyphrase)),
         meta_length      |-> MinMetaLen <= Len(meta_description)
                              /\ Len(meta_description) <= MaxMetaLen,
         keyword_first_100 |-> has /\ body.kw_first_100,
         min_words        |-> body.word_count >= MinWords,
         internal_link    |-> body.internal_link,
         external_link    |-> body.external_link,
         image_alt        |-> TRUE,
         keyword_density  |-> DensityOk(kc, body.word_count),
         transition_words |-> TransitionOk(body.transition_count, body.sentences),
         no_consecutive_sentences |-> body.consecutive_count = 0,
         keyphrase_in_heading |-> body.heading_kw,
         keyphrase_in_slug |-> TempSlugNonEmpty(focus_keyphrase)]

\* sum(checks.values())
PassedChecks(checks) == Cardinality({i \in 1..Len(CheckNames) : checks[CheckNames[i]]})

\* validation_errors with the message of the min_words check removed as
\* the one of image_alt was
FailedMessagesNoMinWords(checks) ==
    LET failed(n) == ~checks[n] /\ n # "min_words"
    IN  SelectSeq(MessageChecks, failed)

\* validation_errors before the critical message: one message for each failed
\* check that has one, in the order of the appends
FailedMessages(checks) ==
    LET failed(n) == ~checks[n]
    IN  SelectSeq(MessageChecks, failed)

\* The rule without its second conjunct: the score alone decides.
IsValidRuleScoreOnly(passed, total, errors) ==
    passed * 100 >= GreenScore * total

\* line 1577: is_valid = score >= 90 and len(validation_errors) == 0
IsValidRule(passed, total, errors) ==
    passed * 100 >= GreenScore * total /\ errors = << >>

\* lines 1596-1606 and 1616-1626: the flat per-check keys of the report
FlatKeys(checks) ==
    [keyphrase_in_title_start     |-> checks.keyword_in_title,
     keyphrase_in_meta_desc       |-> checks.keyword_in_meta,
     keyphrase_in_first_paragraph |-> checks.keyword_first_100,
     keyphrase_in_heading         |-> checks.keyphrase_in_heading,
     image_with_alt_keyphrase     |-> checks.image_alt,
     internal_link_present        |-> checks.internal_link,
     external_link_present        |-> checks.external_link,
     word_count_minimum           |-> checks.min_words,
     transition_words_30percent   |-> checks.transition_words,
     no_consecutive_sentences     |-> checks.no_consecutive_sentences,
     keyphrase_in_slug            |-> checks.keyphrase_in_slug]

AllFalseChecks == [n \in {CheckNames[i] : i \in 1..Len(CheckNames)} |-> FALSE]

\* lines 1571-1607: the report of the normal path.  score is the exact
\* fraction passed * 100 / total, kept as numerator and denominator
ValidateNormal(body, focus_keyphrase, title, meta_description) ==
    LET checks == YoastChecks(body, focus_keyphrase, title, meta_description)
        total  == Len(CheckNames)
        passed == PassedChecks(checks)
        errs   == FailedMessages(checks)
        nokp   == ~Truthy(focus_keyphrase) \/ Len(focus_keyphrase) < MinKeyphraseLen
    IN  [raised    |-> FALSE,
         path      |-> "normal",
         is_valid  |-> IsValidRule(passed, total, errs) /\ ~nokp,
         score_num |-> passed * 100,
         score_den |-> total,
         passed_checks |-> passed,
         total_checks  |-> total,
         checks    |-> checks,
         errors    |-> IF nokp THEN << CriticalMessage >> \o errs ELSE errs,
         flat      |-> FlatKeys(checks)]

\* lines 1609-1627: the report of the except branch; it has no checks,
\* passed_checks or total_checks key, and its one message is str(e)
ValidateExcept ==
    [raised    |-> FALSE,
     path      |-> "except",
     is_valid  |-> FALSE,
     score_num |-> 0,
     score_den |-> 1,
     errors    |-> << "EXCEPTION" >>,
     flat      |-> FlatKeys(AllFalseChecks)]

\* what raises inside the try: re.sub on a body that is None, len() or
\* .lower() on a title or a description that is None, .lower() on a
\* keyphrase that is None (line 1567 at the latest)
ValidatorRaises(body, focus_keyphrase, title, meta_description) ==
    body.none \/ IsNone(focus_keyphrase) \/ IsNone(title) \/ IsNone(meta_description)

\* The validator without its try/except: what raises inside leaves it.
ValidateYoastUnguarded(body, focus_keyphrase, title, meta_description) ==
    IF ValidatorRaises(body, focus_keyphrase, title, meta_description)
    THEN [ValidateExcept EXCEPT !.raised = TRUE]
    ELSE ValidateNormal(body, focus_keyphrase, title, meta_description)

\* PublicationManager._validate_yoast_green_criteria
ValidateYoast(body, focus_keyphrase, title, meta_description) ==
    IF ValidatorRaises(body, focus_keyphrase, title, meta_description)
    THEN ValidateExcept
    ELSE ValidateNormal(body, focus_keyphrase, title, meta_description)

-----------------------------------------------------------------------------
(* KeyphraseExtractor and UniquenessRegistry:                              *)
(* PublicationManager._generate_focus_keyphrase and _ensure_unique_keyphrase *)

\* ' '.join(pieces)
JoinSep(pieces, sep) ==
    Join([i \in 1..(2 * Len(pieces) - 1) |->
            IF i % 2 = 1 THEN pieces[(i + 1) \div 2] ELSE sep])

\* a, o, de, da, do, com, para, em, na, no, um, uma, que, como, vale, pena, melhor, guia, review, an\xe1lise, e, ou, mas, se, por, at\xe9, desde, entre, sobre, sob
KeyphraseStopWords ==
    {<<97>>, <<111>>, <<100, 101>>, <<100, 97>>, <<100, 111>>, <<99, 111, 109>>,
     <<112, 97, 114, 97>>, <<101, 109>>, <<110, 97>>, <<110, 111>>, <<117, 109>>,
     <<117, 109, 97>>, <<113, 117, 101>>, <<99, 111, 109, 111>>, <<118, 97, 108, 101>>,
     <<112, 101, 110, 97>>, <<109, 101, 108, 104, 111, 114>>, <<103, 117, 105, 97>>,
     <<114, 101, 118, 105, 101, 119>>, <<97, 110, 225, 108, 105, 115, 101>>, <<101>>,
     <<111, 117>>, <<109, 97, 115>>, <<115, 101>>, <<112, 111, 114>>, <<97, 116, 233>>,
     <<100, 101, 115, 100, 101>>, <<101, 110, 116, 114, 101>>, <<115, 111, 98, 114, 101>>,
     <<115, 111, 98>>}

\* 2025, nova, atualizada, completa, v2, pro, premium, especial, definitiva, avan\xe7ada, melhorada, atual, moderna, upgrade, plus, max
KeyphraseSuffixes ==
    <<<<50, 48, 50, 53>>, <<110, 111, 118, 97>>,
      <<97, 116, 117, 97, 108, 105, 122, 97, 100, 97>>,
      <<99, 111, 109, 112, 108, 101, 116, 97>>, <<118, 50>>, <<112, 114, 111>>,
      <<112, 114, 101, 109, 105, 117, 109>>, <<101, 115, 112, 101, 99, 105, 97, 108>>,
      <<100, 101, 102, 105, 110, 105, 116, 105, 118, 97>>,
      <<97, 118, 97, 110, 231, 97, 100, 97>>,
      <<109, 101, 108, 104, 111, 114, 97, 100, 97>>, <<97, 116, 117, 97, 108>>,
      <<109, 111, 100, 101, 114, 110, 97>>, <<117, 112, 103, 114, 97, 100, 101>>,
      <<112, 108, 117, 115>>, <<109, 97, 120>>>>

\* "impressora multifuncional" (25)
DefaultKeyphrase ==
    <<105, 109, 112, 114, 101, 115, 115, 111, 114, 97, 32, 109, 117, 108, 116, 105, 102, 117,
    110, 99, 105, 111, 110, 97, 108>>

\* " impressora" (11)
SingleWordTail ==
    <<32, 105, 109, 112, 114, 101, 115, 115, 111, 114, 97>>

\* "impressora tanque integrado" (27)
NoWordKeyphrase ==
    <<105, 109, 112, 114, 101, 115, 115, 111, 114, 97, 32, 116, 97, 110, 113, 117, 101, 32,
    105, 110, 116, 101, 103, 114, 97, 100, 111>>

\* words = [w.strip() for w in produto_nome.lower().split()
\*          if len(w) > 2 and w.lower() not in stop_words]
KeyphraseWords(produto_nome) ==
    SelectSeq(SplitWs(Lower(produto_nome)),
              LAMBDA w : Len(w) > 2 /\ Lower(w) \notin KeyphraseStopWords)

\* The candidate without the stock phrases of lines 251 and 254: the first
\* three relevant words, however few there are.
KeyphraseCandidateWordsOnly(produto_nome) ==
    LET words == KeyphraseWords(produto_nome)
    IN  JoinSep(SubSeq(words, 1, IF Len(words) >= 3 THEN 3 ELSE Len(words)), <<32>>)

\* The phrase asked of the registry: the first three relevant words, both
\* of two, the single one followed by " impressora", or the stock phrase.
KeyphraseCandidate(produto_nome) ==
    LET words == KeyphraseWords(produto_nome)
    IN  IF Len(words) >= 3 THEN JoinSep(SubSeq(words, 1, 3), <<32>>)
        ELSE IF Len(words) = 2 THEN JoinSep(words, <<32>>)
        ELSE IF Len(words) = 1 THEN words[1] \o SingleWordTail
        ELSE NoWordKeyphrase

\* The columns CREATE TABLE gives the publications table.
PublicationsColumns ==
    {"id", "article_id", "wp_post_id", "title", "slug", "status", "publish_date",
     "scheduled_date", "wp_url", "wp_categories", "wp_tags", "error_message",
     "retry_count", "created_at", "updated_at"}

\* SELECT DISTINCT focus_keyphrase FROM publications WHERE focus_keyphrase
\* IS NOT NULL: sqlite raises OperationalError when the table has no such
\* column; the inner "except Exception: pass" leaves used_keyphrases empty.
UsedKeyphrasesQuery(rows) ==
    IF "focus_keyphrase" \in PublicationsColumns
    THEN [raised |-> FALSE,
          used   |-> {rows[i].focus_keyphrase : i \in DOMAIN rows} \ {NoneVal}]
    ELSE [raised |-> TRUE, used |-> {}]

\* The registry answering with the stamped phrase on every call, as the
\* outer except branch of line 318 does.
EnsureUniqueKeyphraseStamped(keyphrase, used_keyphrases, timestamp) ==
    Lower(Strip(keyphrase)) \o <<32>> \o timestamp

\* The suffix loop: the first suffix whose candidate is unused, or the
\* month-day stamp once the list is exhausted (the for/else branch).
EnsureUniqueKeyphrase(keyphrase, used_keyphrases, timestamp) ==
    LET original_keyphrase == Lower(Strip(keyphrase))
        used == {Lower(kp) : kp \in used_keyphrases}
        candidate(i) == original_keyphrase \o <<32>> \o KeyphraseSuffixes[i]
        free == {i \in DOMAIN KeyphraseSuffixes : candidate(i) \notin used}
    IN  IF original_keyphrase \in used
        THEN IF free # {} THEN candidate(MinOf(free))
             ELSE original_keyphrase \o <<32>> \o timestamp
        ELSE original_keyphrase

\* a subject name that is not a str (a number read from a feed)
NonText == << -2 >>

IsNonText(s) == s = NonText

\* _generate_focus_keyphrase over the rows the registry query sees. A name
\* that is not a str raises at .lower() and the except branch (lines
\* 266-268) answers with the stock phrase.
GenerateFocusKeyphrase(produto_nome, rows, timestamp) ==
    IF ~Truthy(produto_nome) THEN DefaultKeyphrase
    ELSE IF IsNonText(produto_nome) THEN DefaultKeyphrase
    ELSE Lower(EnsureUniqueKeyphrase(KeyphraseCandidate(produto_nome),
                                     UsedKeyphrasesQuery(rows).used, timestamp))

-----------------------------------------------------------------------------
(* SlugComposer: PublicationManager._optimize_slug_with_keyphrase and       *)
(* SEOOptimizer.generate_seo_slug                                           *)

\* the characters of the model's texts
Latin1 == 0..255

\* re.sub(r'[^...]', '', s): the characters outside the class are dropped
KeepChars(s, class) == SelectSeq(s, LAMBDA c : c \in class)

\* re.sub(r'[...]+', r, s): every maximal run of characters of the class
\* becomes the one character r
CollapseRuns(s, class, r) ==
    Join([i \in 1..Len(s) |->
            IF s[i] \notin class THEN << s[i] >>
            ELSE IF i > 1 /\ s[i-1] \in class THEN << >>
            ELSE << r >>])

\* s.split(c): the pieces between the occurrences of c, empty ones included
SplitOn(s, c) ==
    LET cuts == SortedSeq({i \in 1..Len(s) : s[i] = c})
        from(k) == IF k = 1 THEN 1 ELSE cuts[k-1] + 1
        to(k)   == IF k = Len(cuts) + 1 THEN Len(s) ELSE cuts[k] - 1
    IN  [k \in 1..(Len(cuts) + 1) |-> SubSeq(s, from(k), to(k))]

\* s.replace(' ', '-')
SpacesToHyphens(s) == [i \in 1..Len(s) |-> IF s[i] = 32 THEN 45 ELSE s[i]]

MaxSlugLen == 50

\* the while loop of lines 418-419 stops at two words
SlugMinWords == 2

\* lines 402-408: the accented vowels, the cedilla and the tilde-n
SlugFold(c) ==
    IF c \in 224..229 THEN 97
    ELSE IF c \in 232..235 THEN 101
    ELSE IF c \in 236..239 THEN 105
    ELSE IF c \in 242..246 THEN 111
    ELSE IF c \in 249..252 THEN 117
    ELSE IF c = 231 THEN 99
    ELSE IF c = 241 THEN 110
    ELSE c

IsSlugChar(c) == c \in 97..122 \/ c \in 48..57 \/ c = 45

\* line 411: [a-z0-9\s-]
SlugKeep == {c \in Latin1 : IsSlugChar(c) \/ IsSpace(c)}

\* the whitespace \s matches
SpaceClass == {c \in Latin1 : IsSpace(c)}

\* lines 416-420: words are popped from the end while the slug is over 50
\* characters and more than two words are left
SlugCap(slug) ==
    LET words == SplitOn(slug, 45)
        fits(m) == Len(JoinSep(SubSeq(words, 1, m), <<45>>)) <= MaxSlugLen
        stops == {m \in 1..Len(words) : fits(m) \/ m <= SlugMinWords}
        kept == CHOOSE m \in stops : \A k \in stops : k <= m
    IN  IF Len(slug) > MaxSlugLen THEN JoinSep(SubSeq(words, 1, kept), <<45>>)
        ELSE slug

\* PublicationManager._optimize_slug_with_keyphrase: the slug is made of the
\* phrase alone, text is not read
OptimizeSlugWithKeyphrase(text, focus_keyphrase) ==
    LET lowered == Lower(focus_keyphrase)
        folded == [i \in 1..Len(lowered) |-> SlugFold(lowered[i])]
        kept == KeepChars(folded, SlugKeep)
        hyphened == CollapseRuns(kept, SpaceClass, 45)
        slug == SlugCap(StripChars(CollapseRuns(hyphened, {45}, 45), {45}))
    IN  IF slug # << >> THEN slug ELSE SpacesToHyphens(focus_keyphrase)

\* a, e, o, de, da, do, para, com, em, na, no, por, at\xe9, como, mais, muito, sem, seu, sua, seus, suas, que, qual, quando, onde, porque, como, um, uma, uns, umas, isso, essa, esta, este, estas, estes, ela, ele, elas, eles, ser, ter, estar
SlugStopWords ==
    {<<97>>, <<101>>, <<111>>, <<100, 101>>, <<100, 97>>, <<100, 111>>,
     <<112, 97, 114, 97>>, <<99, 111, 109>>, <<101, 109>>, <<110, 97>>, <<110, 111>>,
     <<112, 111, 114>>, <<97, 116, 233>>, <<99, 111, 109, 111>>, <<109, 97, 105, 115>>,
     <<109, 117, 105, 116, 111>>, <<115, 101, 109>>, <<115, 101, 117>>, <<115, 117, 97>>,
     <<115, 101, 117, 115>>, <<115, 117, 97, 115>>, <<113, 117, 101>>,
     <<113, 117, 97, 108>>, <<113, 117, 97, 110, 100, 111>>, <<111, 110, 100, 101>>,
     <<112, 111, 114, 113, 117, 101>>, <<99, 111, 109, 111>>, <<117, 109>>,
     <<117, 109, 97>>, <<117, 110, 115>>, <<117, 109, 97, 115>>, <<105, 115, 115, 111>>,
     <<101, 115, 115, 97>>, <<101, 115, 116, 97>>, <<101, 115, 116, 101>>,
     <<101, 115, 116, 97, 115>>, <<101, 115, 116, 101, 115>>, <<101, 108, 97>>,
     <<101, 108, 101>>, <<101, 108, 97, 115>>, <<101, 108, 101, 115>>, <<115, 101, 114>>,
     <<116, 101, 114>>, <<101, 115, 116, 97, 114>>}

\* "produto"
SlugDefault ==
    <<112, 114, 111, 100, 117, 116, 111>>

\* meaningful_words[:6]
SlugMaxWords == 6

\* words[keyword_count:keyword_count+3]
SlugExtraWords == 3

\* lines 187-188: NFD and the removal of the combining marks, on a
\* lower-cased Latin-1 character
StripAccent(c) ==
    IF c \in 224..229 THEN 97
    ELSE IF c = 231 THEN 99
    ELSE IF c \in 232..235 THEN 101
    ELSE IF c \in 236..239 THEN 105
    ELSE IF c = 241 THEN 110
    ELSE IF c \in 242..246 THEN 111
    ELSE IF c \in 249..252 THEN 117
    ELSE IF c \in {253, 255} THEN 121
    ELSE c

\* [\w\s-]
SeoSlugKeep == {c \in Latin1 : IsWordC(c) \/ IsSpace(c) \/ c = 45}

\* [\s_-]
SeoSlugSep == SpaceClass \cup {95, 45}

\* lines 191-192 and 195-196
SeoSlugify(s) == CollapseRuns(KeepChars(s, SeoSlugKeep), SeoSlugSep, 45)

\* SEOOptimizer.generate_seo_slug
GenerateSeoSlug(text, keyword) ==
    IF ~Truthy(text) /\ ~Truthy(keyword) THEN SlugDefault
    ELSE
    LET base == IF Truthy(text) THEN text ELSE keyword
        lowered == Lower(base)
        slug0 == SeoSlugify([i \in 1..Len(lowered) |-> StripAccent(lowered[i])])
        keyword_slug == SeoSlugify(Lower(keyword))
        slug1 == IF Contains(slug0, keyword_slug) THEN slug0
                 ELSE keyword_slug \o <<45>> \o slug0
        keyword_words == SplitOn(keyword_slug, 45)
        in_keyword(w) == \E i \in DOMAIN keyword_words : keyword_words[i] = w
        meaningful(w) == in_keyword(w) \/ (w \notin SlugStopWords /\ Len(w) > 2)
        meaningful_words == SelectSeq(SplitOn(slug1, 45), meaningful)
        slug2 == IF meaningful_words # << >>
                 THEN JoinSep(Prefix(meaningful_words, SlugMaxWords), <<45>>)
                 ELSE slug1
        words == SplitOn(slug2, 45)
        keyword_count == Len(keyword_words)
        remaining_words == Slice(words, keyword_count, keyword_count + SlugExtraWords)
        slug3 == IF Len(slug2) > MaxSlugLen
                 THEN JoinSep(keyword_words \o remaining_words, <<45>>)
                 ELSE slug2
        slug == StripChars(slug3, {45})
    IN  IF slug # << >> THEN slug ELSE SlugDefault

-----------------------------------------------------------------------------
(* The rewriting steps of the body: step 3 of                               *)
(* PublicationManager._optimize_content_for_yoast_green                     *)

\* . ! ?
SentenceEnds == {46, 33, 63}

\* re.split(r'(?<=[.!?])\s+', s): the string is cut at every run of
\* whitespace that starts right after a full stop, an exclamation mark or a
\* question mark; the runs are dropped
SplitSentences(s) ==
    LET cuts == SortedSeq({i \in 2..Len(s) : IsSpace(s[i]) /\ s[i-1] \in SentenceEnds})
        runEnd(i) == LET stop == MinOf({j \in i..Len(s) : ~IsSpace(s[j])})
                     IN  IF stop = 0 THEN Len(s) ELSE stop - 1
        from(k) == IF k = 1 THEN 1 ELSE runEnd(cuts[k-1]) + 1
        to(k)   == IF k = Len(cuts) + 1 THEN Len(s) ELSE cuts[k] - 1
    IN  [k \in 1..(Len(cuts) + 1) |-> SubSeq(s, from(k), to(k))]

\* sentence.split()[0].lower() if sentence.split() else ""
FirstWord(sentence) ==
    LET words == SplitWs(sentence)
    IN  IF words = << >> THEN << >> ELSE Lower(words[1])

\* line 576: sentences under 10 characters are passed over
OpenerMinLen == 10

\* lines 588-595: "Além disso, ", "Por outro lado, ", "Vale destacar que ",
\* "É importante notar que ", "Nesse contexto, ", "Dessa forma, "
OpenerAlternatives ==
    << <<65, 108, 233, 109, 32, 100, 105, 115, 115, 111, 44, 32>>,
       <<80, 111, 114, 32, 111, 117, 116, 114, 111, 32, 108, 97, 100, 111, 44, 32>>,
       <<86, 97, 108, 101, 32, 100, 101, 115, 116, 97, 99, 97, 114, 32, 113, 117, 101, 32>>,
       <<201, 32, 105, 109, 112, 111, 114, 116, 97, 110, 116, 101, 32, 110, 111, 116, 97,
      114, 32, 113, 117, 101, 32>>,
       <<78, 101, 115, 115, 101, 32, 99, 111, 110, 116, 101, 120, 116, 111, 44, 32>>,
       <<68, 101, 115, 115, 97, 32, 102, 111, 114, 109, 97, 44, 32>> >>

\* lines 575-599, the iterations from index i on (i counts from 0 as
\* enumerate does); final_sentences holds the sentences already handled
RECURSIVE OpenerLoop(_, _, _)
OpenerLoop(sentences, i, final_sentences) ==
    IF i >= Len(sentences) THEN final_sentences
    ELSE
    LET sentence == sentences[i + 1]
        n == Len(final_sentences)
        current_start == FirstWord(sentence)
        repeated == /\ i >= 2
                    /\ current_start = FirstWord(final_sentences[n])
                    /\ current_start = FirstWord(final_sentences[n - 1])
                    /\ current_start # << >>
        alternative == OpenerAlternatives[(i % Len(OpenerAlternatives)) + 1]
                           \o Lower(sentence)
        kept == IF Len(Strip(sentence)) < OpenerMinLen THEN sentence
                ELSE IF repeated THEN alternative
                ELSE sentence
    IN  OpenerLoop(sentences, i + 1, Append(final_sentences, kept))

\* step 3 of _optimize_content_for_yoast_green (lines 571-601)
DiversifyOpeners(content) ==
    JoinSep(OpenerLoop(SplitSentences(content), 0, << >>), <<32>>)

-----------------------------------------------------------------------------
(* The keyword density: step 6 of _optimize_content_for_yoast_green and     *)
(* PublicationManager._optimize_keyword_density                             *)

\* s.count(p): the occurrences of p in s that do not overlap, found from
\* the left; an empty p is found len(s) + 1 times
RECURSIVE CountFrom(_, _, _)
CountFrom(matches, width, i) ==
    LET m == MinOf({j \in matches : j >= i})
    IN  IF m = 0 THEN 0 ELSE 1 + CountFrom(matches, width, m + width)

CountOccurrences(s, p) ==
    IF p = << >> THEN Len(s) + 1
    ELSE CountFrom({i \in 1..(Len(s) - Len(p) + 1) : SubSeq(s, i, i + Len(p) - 1) = p},
                   Len(p), 1)

\* line 712: a paragraph of more than 100 characters takes a sentence
DensityParaLen == 100

\* " O "
DensityLead ==
    <<32, 79, 32>>

\* " oferece excelente custo-benefício."
DensityTail ==
    <<32, 111, 102, 101, 114, 101, 99, 101, 32, 101, 120, 99, 101, 108, 101, 110, 116,
      101, 32, 99, 117, 115, 116, 111, 45, 98, 101, 110, 101, 102, 237, 99, 105, 111,
      46>>

\* int(words * 1.5 / 100), which is words * 3 // 200 for every word count
\* a body of the model has
DensityTarget(words) == (words * 3) \div 200

\* step 6 (lines 704-721): the first paragraphs, as many as occurrences are
\* missing, take the sentence when they have more than 100 characters
DensityStep(content, focus_keyphrase) ==
    LET text_content == StripTags(content)
        words == WordCount(text_content)
        keyphrase_count == CountOccurrences(Lower(text_content), Lower(focus_keyphrase))
        target_count == DensityTarget(words)
        needed == target_count - keyphrase_count
        paragraphs == SplitParas(content)
        grown == [i \in 1..Len(paragraphs) |->
                    IF i <= Min2(needed, Len(paragraphs))
                       /\ Len(paragraphs[i]) > DensityParaLen
                    THEN paragraphs[i] \o DensityLead \o focus_keyphrase \o DensityTail
                    ELSE paragraphs[i]]
    IN  IF keyphrase_count < target_count THEN JoinSep(grown, <<10, 10>>) ELSE content

\* '\n<h3>Análise Técnica</h3>\n<p>Este modelo apresenta especificações
\* técnicas que o destacam no mercado atual. Com tecnologia moderna e
\* design inovador, atende às expectativas dos usuários mais
\* exigentes.</p>\n\n<p>Por outro lado, a facilidade de uso é um dos pontos
\* fortes deste equipamento. Dessa forma, tanto iniciantes quanto usuários
\* experientes podem aproveitar todos os recursos disponíveis sem
\* complicações.</p>\n\n<h3>Comparativo de Mercado</h3>\n<p>Quando
\* comparamos com modelos similares, encontramos vantagens significativas
\* em termos de custo-benefício. Além disso, a durabilidade e
\* confiabilidade são características que justificam o
\* investimento.</p>\n\n<p>Consequentemente, para quem busca qualidade e
\* economia, este modelo representa uma escolha acertada. Em primeiro
\* lugar, os custos operacionais são reduzidos, garantindo economia a longo
\* prazo.</p>\n\n<h3>Suporte e Garantia</h3>\n<p>Por fim, o suporte técnico
\* especializado e a garantia estendida são diferenciais importantes.
\* Portanto, você terá tranquilidade e segurança em sua compra, sabendo que
\* conta com assistência qualificada sempre que necessário.</p>\n'
DensityExtraContent ==
    <<10, 60, 104, 51, 62, 65, 110, 225, 108, 105, 115, 101, 32, 84, 233, 99, 110, 105,
      99, 97, 60, 47, 104, 51, 62, 10, 60, 112, 62, 69, 115, 116, 101, 32, 109, 111,
      100, 101, 108, 111, 32, 97, 112, 114, 101, 115, 101, 110, 116, 97, 32, 101, 115,
      112, 101, 99, 105, 102, 105, 99, 97, 231, 245, 101, 115, 32, 116, 233, 99, 110,
      105, 99, 97, 115, 32, 113, 117, 101, 32, 111, 32, 100, 101, 115, 116, 97, 99, 97,
      109, 32, 110, 111, 32, 109, 101, 114, 99, 97, 100, 111, 32, 97, 116, 117, 97, 108,
      46, 32, 67, 111, 109, 32, 116, 101, 99, 110, 111, 108, 111, 103, 105, 97, 32, 109,
      111, 100, 101, 114, 110, 97, 32, 101, 32, 100, 101, 115, 105, 103, 110, 32, 105,
      110, 111, 118, 97, 100, 111, 114, 44, 32, 97, 116, 101, 110, 100, 101, 32, 224,
      115, 32, 101, 120, 112, 101, 99, 116, 97, 116, 105, 118, 97, 115, 32, 100, 111,
      115, 32, 117, 115, 117, 225, 114, 105, 111, 115, 32, 109, 97, 105, 115, 32, 101,
      120, 105, 103, 101, 110, 116, 101, 115, 46, 60, 47, 112, 62, 10, 10, 60, 112, 62,
      80, 111, 114, 32, 111, 117, 116, 114, 111, 32, 108, 97, 100, 111, 44, 32, 97, 32,
      102, 97, 99, 105, 108, 105, 100, 97, 100, 101, 32, 100, 101, 32, 117, 115, 111,
      32, 233, 32, 117, 109, 32, 100, 111, 115, 32, 112, 111, 110, 116, 111, 115, 32,
      102, 111, 114, 116, 101, 115, 32, 100, 101, 115, 116, 101, 32, 101, 113, 117, 105,
      112, 97, 109, 101, 110, 116, 111, 46, 32, 68, 101, 115, 115, 97, 32, 102, 111,
      114, 109, 97, 44, 32, 116, 97, 110, 116, 111, 32, 105, 110, 105, 99, 105, 97, 110,
      116, 101, 115, 32, 113, 117, 97, 110, 116, 111, 32, 117, 115, 117, 225, 114, 105,
      111, 115, 32, 101, 120, 112, 101, 114, 105, 101, 110, 116, 101, 115, 32, 112, 111,
      100, 101, 109, 32, 97, 112, 114, 111, 118, 101, 105, 116, 97, 114, 32, 116, 111,
      100, 111, 115, 32, 111, 115, 32, 114, 101, 99, 117, 114, 115, 111, 115, 32, 100,
      105, 115, 112, 111, 110, 237, 118, 101, 105, 115, 32, 115, 101, 109, 32, 99, 111,
      109, 112, 108, 105, 99, 97, 231, 245, 101, 115, 46, 60, 47, 112, 62, 10, 10, 60,
      104, 51, 62, 67, 111, 109, 112, 97, 114, 97, 116, 105, 118, 111, 32, 100, 101, 32,
      77, 101, 114, 99, 97, 100, 111, 60, 47, 104, 51, 62, 10, 60, 112, 62, 81, 117, 97,
      110, 100, 111, 32, 99, 111, 109, 112, 97, 114, 97, 109, 111, 115, 32, 99, 111,
      109, 32, 109, 111, 100, 101, 108, 111, 115, 32, 115, 105, 109, 105, 108, 97, 114,
      101, 115, 44, 32, 101, 110, 99, 111, 110, 116, 114, 97, 109, 111, 115, 32, 118,
      97, 110, 116, 97, 103, 101, 110, 115, 32, 115, 105, 103, 110, 105, 102, 105, 99,
      97, 116, 105, 118, 97, 115, 32, 101, 109, 32, 116, 101, 114, 109, 111, 115, 32,
      100, 101, 32, 99, 117, 115, 116, 111, 45, 98, 101, 110, 101, 102, 237, 99, 105,
      111, 46, 32, 65, 108, 233, 109, 32, 100, 105, 115, 115, 111, 44, 32, 97, 32, 100,
      117, 114, 97, 98, 105, 108, 105, 100, 97, 100, 101, 32, 101, 32, 99, 111, 110,
      102, 105, 97, 98, 105, 108, 105, 100, 97, 100, 101, 32, 115, 227, 111, 32, 99, 97,
      114, 97, 99, 116, 101, 114, 237, 115, 116, 105, 99, 97, 115, 32, 113, 117, 101,
      32, 106, 117, 115, 116, 105, 102, 105, 99, 97, 109, 32, 111, 32, 105, 110, 118,
      101, 115, 116, 105, 109, 101, 110, 116, 111, 46, 60, 47, 112, 62, 10, 10, 60, 112,
      62, 67, 111, 110, 115, 101, 113, 117, 101, 110, 116, 101, 109, 101, 110, 116, 101,
      44, 32, 112, 97, 114, 97, 32, 113, 117, 101, 109, 32, 98, 117, 115, 99, 97, 32,
      113, 117, 97, 108, 105, 100, 97, 100, 101, 32, 101, 32, 101, 99, 111, 110, 111,
      109, 105, 97, 44, 32, 101, 115, 116, 101, 32, 109, 111, 100, 101, 108, 111, 32,
      114, 101, 112, 114, 101, 115, 101, 110, 116, 97, 32, 117, 109, 97, 32, 101, 115,
      99, 111, 108, 104, 97, 32, 97, 99, 101, 114, 116, 97, 100, 97, 46, 32, 69, 109,
      32, 112, 114, 105, 109, 101, 105, 114, 111, 32, 108, 117, 103, 97, 114, 44, 32,
      111, 115, 32, 99, 117, 115, 116, 111, 115, 32, 111, 112, 101, 114, 97, 99, 105,
      111, 110, 97, 105, 115, 32, 115, 227, 111, 32, 114, 101, 100, 117, 122, 105, 100,
      111, 115, 44, 32, 103, 97, 114, 97, 110, 116, 105, 110, 100, 111, 32, 101, 99,
      111, 110, 111, 109, 105, 97, 32, 97, 32, 108, 111, 110, 103, 111, 32, 112, 114,
      97, 122, 111, 46, 60, 47, 112, 62, 10, 10, 60, 104, 51, 62, 83, 117, 112, 111,
      114, 116, 101, 32, 101, 32, 71, 97, 114, 97, 110, 116, 105, 97, 60, 47, 104, 51,
      62, 10, 60, 112, 62, 80, 111, 114, 32, 102, 105, 109, 44, 32, 111, 32, 115, 117,
      112, 111, 114, 116, 101, 32, 116, 233, 99, 110, 105, 99, 111, 32, 101, 115, 112,
      101, 99, 105, 97, 108, 105, 122, 97, 100, 111, 32, 101, 32, 97, 32, 103, 97, 114,
      97, 110, 116, 105, 97, 32, 101, 115, 116, 101, 110, 100, 105, 100, 97, 32, 115,
      227, 111, 32, 100, 105, 102, 101, 114, 101, 110, 99, 105, 97, 105, 115, 32, 105,
      109, 112, 111, 114, 116, 97, 110, 116, 101, 115, 46, 32, 80, 111, 114, 116, 97,
      110, 116, 111, 44, 32, 118, 111, 99, 234, 32, 116, 101, 114, 225, 32, 116, 114,
      97, 110, 113, 117, 105, 108, 105, 100, 97, 100, 101, 32, 101, 32, 115, 101, 103,
      117, 114, 97, 110, 231, 97, 32, 101, 109, 32, 115, 117, 97, 32, 99, 111, 109, 112,
      114, 97, 44, 32, 115, 97, 98, 101, 110, 100, 111, 32, 113, 117, 101, 32, 99, 111,
      110, 116, 97, 32, 99, 111, 109, 32, 97, 115, 115, 105, 115, 116, 234, 110, 99,
      105, 97, 32, 113, 117, 97, 108, 105, 102, 105, 99, 97, 100, 97, 32, 115, 101, 109,
      112, 114, 101, 32, 113, 117, 101, 32, 110, 101, 99, 101, 115, 115, 225, 114, 105,
      111, 46, 60, 47, 112, 62, 10>>

\* '\n\n<h3>Instalação e Configuração</h3>\n<p>A instalação é simples e
\* rápida, permitindo que você comece a usar imediatamente. O design
\* moderno combina com qualquer ambiente, seja residencial ou
\* comercial.</p>\n\n<p>A interface é intuitiva e fácil de navegar. Os
\* recursos avançados são acessíveis através de menus bem organizados,
\* facilitando o dia a dia dos usuários.</p>\n\n<h3>Economia e
\* Sustentabilidade</h3>\n<p>O consumo energético é otimizado, contribuindo
\* para a sustentabilidade e redução de custos operacionais. Isso
\* representa economia real na conta de energia elétrica.</p>\n\n<p>A
\* manutenção preventiva é simples e econômica. Com cuidados básicos, você
\* garante longa vida útil ao equipamento.</p>\n\n<h3>Atendimento e
\* Suporte</h3>\n<p>O atendimento ao cliente é personalizado e eficiente.
\* Nossa equipe técnica especializada está sempre pronta para ajudar com
\* dúvidas e orientações.</p>\n\n<p>A garantia estendida oferece
\* tranquilidade adicional. Você conta com cobertura completa contra
\* defeitos de fabricação.</p>\n\n<h3>Benefícios de Longo Prazo</h3>\n<p>O
\* investimento se paga rapidamente através da economia operacional. Além
\* da redução de custos, você obtém maior produtividade e eficiência no
\* trabalho.</p>\n\n<p>A tecnologia avançada garante compatibilidade com
\* sistemas futuros. Você não precisará se preocupar com obsolescência
\* prematura do equipamento.</p>\n'
DilutionContent ==
    <<10, 10, 60, 104, 51, 62, 73, 110, 115, 116, 97, 108, 97, 231, 227, 111, 32, 101,
      32, 67, 111, 110, 102, 105, 103, 117, 114, 97, 231, 227, 111, 60, 47, 104, 51, 62,
      10, 60, 112, 62, 65, 32, 105, 110, 115, 116, 97, 108, 97, 231, 227, 111, 32, 233,
      32, 115, 105, 109, 112, 108, 101, 115, 32, 101, 32, 114, 225, 112, 105, 100, 97,
      44, 32, 112, 101, 114, 109, 105, 116, 105, 110, 100, 111, 32, 113, 117, 101, 32,
      118, 111, 99, 234, 32, 99, 111, 109, 101, 99, 101, 32, 97, 32, 117, 115, 97, 114,
      32, 105, 109, 101, 100, 105, 97, 116, 97, 109, 101, 110, 116, 101, 46, 32, 79, 32,
      100, 101, 115, 105, 103, 110, 32, 109, 111, 100, 101, 114, 110, 111, 32, 99, 111,
      109, 98, 105, 110, 97, 32, 99, 111, 109, 32, 113, 117, 97, 108, 113, 117, 101,
      114, 32, 97, 109, 98, 105, 101, 110, 116, 101, 44, 32, 115, 101, 106, 97, 32, 114,
      101, 115, 105, 100, 101, 110, 99, 105, 97, 108, 32, 111, 117, 32, 99, 111, 109,
      101, 114, 99, 105, 97, 108, 46, 60, 47, 112, 62, 10, 10, 60, 112, 62, 65, 32, 105,
      110, 116, 101, 114, 102, 97, 99, 101, 32, 233, 32, 105, 110, 116, 117, 105, 116,
      105, 118, 97, 32, 101, 32, 102, 225, 99, 105, 108, 32, 100, 101, 32, 110, 97, 118,
      101, 103, 97, 114, 46, 32, 79, 115, 32, 114, 101, 99, 117, 114, 115, 111, 115, 32,
      97, 118, 97, 110, 231, 97, 100, 111, 115, 32, 115, 227, 111, 32, 97, 99, 101, 115,
      115, 237, 118, 101, 105, 115, 32, 97, 116, 114, 97, 118, 233, 115, 32, 100, 101,
      32, 109, 101, 110, 117, 115, 32, 98, 101, 109, 32, 111, 114, 103, 97, 110, 105,
      122, 97, 100, 111, 115, 44, 32, 102, 97, 99, 105, 108, 105, 116, 97, 110, 100,
      111, 32, 111, 32, 100, 105, 97, 32, 97, 32, 100, 105, 97, 32, 100, 111, 115, 32,
      117, 115, 117, 225, 114, 105, 111, 115, 46, 60, 47, 112, 62, 10, 10, 60, 104, 51,
      62, 69, 99, 111, 110, 111, 109, 105, 97, 32, 101, 32, 83, 117, 115, 116, 101, 110,
      116, 97, 98, 105, 108, 105, 100, 97, 100, 101, 60, 47, 104, 51, 62, 10, 60, 112,
      62, 79, 32, 99, 111, 110, 115, 117, 109, 111, 32, 101, 110, 101, 114, 103, 233,
      116, 105, 99, 111, 32, 233, 32, 111, 116, 105, 109, 105, 122, 97, 100, 111, 44,
      32, 99, 111, 110, 116, 114, 105, 98, 117, 105, 110, 100, 111, 32, 112, 97, 114,
      97, 32, 97, 32, 115, 117, 115, 116, 101, 110, 116, 97, 98, 105, 108, 105, 100, 97,
      100, 101, 32, 101, 32, 114, 101, 100, 117, 231, 227, 111, 32, 100, 101, 32, 99,
      117, 115, 116, 111, 115, 32, 111, 112, 101, 114, 97, 99, 105, 111, 110, 97, 105,
      115, 46, 32, 73, 115, 115, 111, 32, 114, 101, 112, 114, 101, 115, 101, 110, 116,
      97, 32, 101, 99, 111, 110, 111, 109, 105, 97, 32, 114, 101, 97, 108, 32, 110, 97,
      32, 99, 111, 110, 116, 97, 32, 100, 101, 32, 101, 110, 101, 114, 103, 105, 97, 32,
      101, 108, 233, 116, 114, 105, 99, 97, 46, 60, 47, 112, 62, 10, 10, 60, 112, 62,
      65, 32, 109, 97, 110, 117, 116, 101, 110, 231, 227, 111, 32, 112, 114, 101, 118,
      101, 110, 116, 105, 118, 97, 32, 233, 32, 115, 105, 109, 112, 108, 101, 115, 32,
      101, 32, 101, 99, 111, 110, 244, 109, 105, 99, 97, 46, 32, 67, 111, 109, 32, 99,
      117, 105, 100, 97, 100, 111, 115, 32, 98, 225, 115, 105, 99, 111, 115, 44, 32,
      118, 111, 99, 234, 32, 103, 97, 114, 97, 110, 116, 101, 32, 108, 111, 110, 103,
      97, 32, 118, 105, 100, 97, 32, 250, 116, 105, 108, 32, 97, 111, 32, 101, 113, 117,
      105, 112, 97, 109, 101, 110, 116, 111, 46, 60, 47, 112, 62, 10, 10, 60, 104, 51,
      62, 65, 116, 101, 110, 100, 105, 109, 101, 110, 116, 111, 32, 101, 32, 83, 117,
      112, 111, 114, 116, 101, 60, 47, 104, 51, 62, 10, 60, 112, 62, 79, 32, 97, 116,
      101, 110, 100, 105, 109, 101, 110, 116, 111, 32, 97, 111, 32, 99, 108, 105, 101,
      110, 116, 101, 32, 233, 32, 112, 101, 114, 115, 111, 110, 97, 108, 105, 122, 97,
      100, 111, 32, 101, 32, 101, 102, 105, 99, 105, 101, 110, 116, 101, 46, 32, 78,
      111, 115, 115, 97, 32, 101, 113, 117, 105, 112, 101, 32, 116, 233, 99, 110, 105,
      99, 97, 32, 101, 115, 112, 101, 99, 105, 97, 108, 105, 122, 97, 100, 97, 32, 101,
      115, 116, 225, 32, 115, 101, 109, 112, 114, 101, 32, 112, 114, 111, 110, 116, 97,
      32, 112, 97, 114, 97, 32, 97, 106, 117, 100, 97, 114, 32, 99, 111, 109, 32, 100,
      250, 118, 105, 100, 97, 115, 32, 101, 32, 111, 114, 105, 101, 110, 116, 97, 231,
      245, 101, 115, 46, 60, 47, 112, 62, 10, 10, 60, 112, 62, 65, 32, 103, 97, 114, 97,
      110, 116, 105, 97, 32, 101, 115, 116, 101, 110, 100, 105, 100, 97, 32, 111, 102,
      101, 114, 101, 99, 101, 32, 116, 114, 97, 110, 113, 117, 105, 108, 105, 100, 97,
      100, 101, 32, 97, 100, 105, 99, 105, 111, 110, 97, 108, 46, 32, 86, 111, 99, 234,
      32, 99, 111, 110, 116, 97, 32, 99, 111, 109, 32, 99, 111, 98, 101, 114, 116, 117,
      114, 97, 32, 99, 111, 109, 112, 108, 101, 116, 97, 32, 99, 111, 110, 116, 114, 97,
      32, 100, 101, 102, 101, 105, 116, 111, 115, 32, 100, 101, 32, 102, 97, 98, 114,
      105, 99, 97, 231, 227, 111, 46, 60, 47, 112, 62, 10, 10, 60, 104, 51, 62, 66, 101,
      110, 101, 102, 237, 99, 105, 111, 115, 32, 100, 101, 32, 76, 111, 110, 103, 111,
      32, 80, 114, 97, 122, 111, 60, 47, 104, 51, 62, 10, 60, 112, 62, 79, 32, 105, 110,
      118, 101, 115, 116, 105, 109, 101, 110, 116, 111, 32, 115, 101, 32, 112, 97, 103,
      97, 32, 114, 97, 112, 105, 100, 97, 109, 101, 110, 116, 101, 32, 97, 116, 114, 97,
      118, 233, 115, 32, 100, 97, 32, 101, 99, 111, 110, 111, 109, 105, 97, 32, 111,
      112, 101, 114, 97, 99, 105, 111, 110, 97, 108, 46, 32, 65, 108, 233, 109, 32, 100,
      97, 32, 114, 101, 100, 117, 231, 227, 111, 32, 100, 101, 32, 99, 117, 115, 116,
      111, 115, 44, 32, 118, 111, 99, 234, 32, 111, 98, 116, 233, 109, 32, 109, 97, 105,
      111, 114, 32, 112, 114, 111, 100, 117, 116, 105, 118, 105, 100, 97, 100, 101, 32,
      101, 32, 101, 102, 105, 99, 105, 234, 110, 99, 105, 97, 32, 110, 111, 32, 116,
      114, 97, 98, 97, 108, 104, 111, 46, 60, 47, 112, 62, 10, 10, 60, 112, 62, 65, 32,
      116, 101, 99, 110, 111, 108, 111, 103, 105, 97, 32, 97, 118, 97, 110, 231, 97,
      100, 97, 32, 103, 97, 114, 97, 110, 116, 101, 32, 99, 111, 109, 112, 97, 116, 105,
      98, 105, 108, 105, 100, 97, 100, 101, 32, 99, 111, 109, 32, 115, 105, 115, 116,
      101, 109, 97, 115, 32, 102, 117, 116, 117, 114, 111, 115, 46, 32, 86, 111, 99,
      234, 32, 110, 227, 111, 32, 112, 114, 101, 99, 105, 115, 97, 114, 225, 32, 115,
      101, 32, 112, 114, 101, 111, 99, 117, 112, 97, 114, 32, 99, 111, 109, 32, 111, 98,
      115, 111, 108, 101, 115, 99, 234, 110, 99, 105, 97, 32, 112, 114, 101, 109, 97,
      116, 117, 114, 97, 32, 100, 111, 32, 101, 113, 117, 105, 112, 97, 109, 101, 110,
      116, 111, 46, 60, 47, 112, 62, 10>>

\* lines 845-851: the five paragraphs that are appended, none of which
\* names the phrase
NaturalContexts ==
    <<
      <<60, 112, 62, 69, 115, 116, 101, 32, 109, 111, 100, 101, 108, 111, 32, 111, 102,
        101, 114, 101, 99, 101, 32, 101, 120, 99, 101, 108, 101, 110, 116, 101, 32, 100,
        101, 115, 101, 109, 112, 101, 110, 104, 111, 32, 112, 97, 114, 97, 32, 117, 115,
        111, 32, 100, 105, 225, 114, 105, 111, 46, 60, 47, 112, 62>>,
      <<60, 112, 62, 201, 32, 105, 100, 101, 97, 108, 32, 112, 97, 114, 97, 32, 117,
        115, 111, 32, 112, 114, 111, 102, 105, 115, 115, 105, 111, 110, 97, 108, 32,
        101, 32, 100, 111, 109, 233, 115, 116, 105, 99, 111, 46, 60, 47, 112, 62>>,
      <<60, 112, 62, 69, 115, 99, 111, 108, 104, 101, 114, 32, 111, 32, 109, 111, 100,
        101, 108, 111, 32, 99, 101, 114, 116, 111, 32, 233, 32, 102, 117, 110, 100, 97,
        109, 101, 110, 116, 97, 108, 32, 112, 97, 114, 97, 32, 98, 111, 110, 115, 32,
        114, 101, 115, 117, 108, 116, 97, 100, 111, 115, 46, 60, 47, 112, 62>>,
      <<60, 112, 62, 65, 32, 116, 101, 99, 110, 111, 108, 111, 103, 105, 97, 32, 109,
        111, 100, 101, 114, 110, 97, 32, 103, 97, 114, 97, 110, 116, 101, 32, 101, 102,
        105, 99, 105, 234, 110, 99, 105, 97, 32, 101, 110, 101, 114, 103, 233, 116, 105,
        99, 97, 46, 60, 47, 112, 62>>,
      <<60, 112, 62, 73, 110, 118, 101, 115, 116, 105, 114, 32, 110, 101, 115, 116, 101,
        32, 101, 113, 117, 105, 112, 97, 109, 101, 110, 116, 111, 32, 233, 32, 117, 109,
        97, 32, 100, 101, 99, 105, 115, 227, 111, 32, 105, 110, 116, 101, 108, 105, 103,
        101, 110, 116, 101, 46, 60, 47, 112, 62>>
    >>

\* line 809: a body under 300 words takes the extra sections
DensityMinWords == 300

\* line 840: max(2, int(total_words * 0.015))
DensityMinTarget == 2

\* current_density < 0.5, in whole numbers: count / words * 100 < 0.5
DensityLow(keyword_count, total_words) ==
    total_words = 0 \/ keyword_count * 200 < total_words

\* current_density > 2.5
DensityHigh(keyword_count, total_words) ==
    total_words > 0 /\ keyword_count * 40 > total_words

\* PublicationManager._optimize_keyword_density
OptimizeKeywordDensity(content, focus_keyphrase) ==
    LET words0 == WordCount(StripTags(content))
        padded == IF words0 < DensityMinWords THEN content \o DensityExtraContent ELSE content
        text_only == StripTags(padded)
        total_words == WordCount(text_only)
        keyword_count == CountOccurrences(Lower(text_only), Lower(focus_keyphrase))
        target_count == Max2(DensityMinTarget, DensityTarget(total_words))
        additional_needed == target_count - keyword_count
        added == Min2(additional_needed, Len(NaturalContexts))
        contexts == Join([i \in 1..Max2(added, 0) |-> <<10>> \o NaturalContexts[i]])
    IN  IF DensityLow(keyword_count, total_words) THEN padded \o contexts
        ELSE IF DensityHigh(keyword_count, total_words) THEN padded \o DilutionContent
        ELSE padded

-----------------------------------------------------------------------------
(* The passes of the generator: ContentGenerator._convert_to_active_voice,  *)
(* SEOOptimizer._optimize_lists_enhanced and                                 *)
(* ContentGenerator._ensure_keyword_in_first_paragraph                       *)

\* re.sub(pattern, repl, s, flags=re.IGNORECASE) for a pattern of lower-case
\* letters and spaces: the matches are taken from the left and do not
\* overlap
RECURSIVE ReplaceFrom(_, _, _, _, _)
ReplaceFrom(s, matches, width, repl, i) ==
    LET m == MinOf({j \in matches : j >= i})
    IN  IF m = 0 THEN SubSeq(s, i, Len(s))
        ELSE SubSeq(s, i, m - 1) \o repl \o ReplaceFrom(s, matches, width, repl, m + width)

ReplaceIgnoreCase(s, pattern, repl) ==
    LET width == Len(pattern)
        matches == {i \in 1..(Len(s) - width + 1) :
                        Lower(SubSeq(s, i, i + width - 1)) = pattern}
    IN  ReplaceFrom(s, matches, width, repl, 1)

\* lines 893-910: the passive forms and what replaces them
ActiveVoicePatterns ==
    <<
       \* 'é oferecido' -> 'oferece'
       << <<233, 32, 111, 102, 101, 114, 101, 99, 105, 100, 111>>,
          <<111, 102, 101, 114, 101, 99, 101>> >>,
       \* 'são oferecidos' -> 'oferecem'
       << <<115, 227, 111, 32, 111, 102, 101, 114, 101, 99, 105, 100, 111, 115>>,
          <<111, 102, 101, 114, 101, 99, 101, 109>> >>,
       \* 'é proporcionado' -> 'proporciona'
       << <<233, 32, 112, 114, 111, 112, 111, 114, 99, 105, 111, 110, 97, 100, 111>>,
          <<112, 114, 111, 112, 111, 114, 99, 105, 111, 110, 97>> >>,
       \* 'são proporcionados' -> 'proporcionam'
       << <<115, 227, 111, 32, 112, 114, 111, 112, 111, 114, 99, 105, 111, 110, 97, 100, 111, 115>>,
          <<112, 114, 111, 112, 111, 114, 99, 105, 111, 110, 97, 109>> >>,
       \* 'é garantido' -> 'garante'
       << <<233, 32, 103, 97, 114, 97, 110, 116, 105, 100, 111>>,
          <<103, 97, 114, 97, 110, 116, 101>> >>,
       \* 'são garantidos' -> 'garantem'
       << <<115, 227, 111, 32, 103, 97, 114, 97, 110, 116, 105, 100, 111, 115>>,
          <<103, 97, 114, 97, 110, 116, 101, 109>> >>,
       \* 'é recomendado' -> 'recomendamos'
       << <<233, 32, 114, 101, 99, 111, 109, 101, 110, 100, 97, 100, 111>>,
          <<114, 101, 99, 111, 109, 101, 110, 100, 97, 109, 111, 115>> >>,
       \* 'são recomendados' -> 'recomendamos'
       << <<115, 227, 111, 32, 114, 101, 99, 111, 109, 101, 110, 100, 97, 100, 111, 115>>,
          <<114, 101, 99, 111, 109, 101, 110, 100, 97, 109, 111, 115>> >>,
       \* 'é utilizado' -> 'utiliza'
       << <<233, 32, 117, 116, 105, 108, 105, 122, 97, 100, 111>>,
          <<117, 116, 105, 108, 105, 122, 97>> >>,
       \* 'são utilizados' -> 'utilizam'
       << <<115, 227, 111, 32, 117, 116, 105, 108, 105, 122, 97, 100, 111, 115>>,
          <<117, 116, 105, 108, 105, 122, 97, 109>> >>,
       \* 'é considerado' -> 'consideramos'
       << <<233, 32, 99, 111, 110, 115, 105, 100, 101, 114, 97, 100, 111>>,
          <<99, 111, 110, 115, 105, 100, 101, 114, 97, 109, 111, 115>> >>,
       \* 'são considerados' -> 'consideramos'
       << <<115, 227, 111, 32, 99, 111, 110, 115, 105, 100, 101, 114, 97, 100, 111, 115>>,
          <<99, 111, 110, 115, 105, 100, 101, 114, 97, 109, 111, 115>> >>,
       \* 'pode ser usado' -> 'você pode usar'
       << <<112, 111, 100, 101, 32, 115, 101, 114, 32, 117, 115, 97, 100, 111>>,
          <<118, 111, 99, 234, 32, 112, 111, 100, 101, 32, 117, 115, 97, 114>> >>,
       \* 'podem ser usados' -> 'você pode usar'
       << <<112, 111, 100, 101, 109, 32, 115, 101, 114, 32, 117, 115, 97, 100, 111, 115>>,
          <<118, 111, 99, 234, 32, 112, 111, 100, 101, 32, 117, 115, 97, 114>> >>,
       \* 'será beneficiado' -> 'você se beneficia'
       << <<115, 101, 114, 225, 32, 98, 101, 110, 101, 102, 105, 99, 105, 97, 100, 111>>,
          <<118, 111, 99, 234, 32, 115, 101, 32, 98, 101, 110, 101, 102, 105, 99, 105, 97>> >>,
       \* 'serão beneficiados' -> 'vocês se beneficiam'
       << <<115, 101, 114, 227, 111, 32, 98, 101, 110, 101, 102, 105, 99, 105, 97, 100, 111, 115>>,
          <<118, 111, 99, 234, 115, 32, 115, 101, 32, 98, 101, 110, 101, 102, 105, 99, 105, 97, 109>> >>
    >>

\* lines 912-913: the patterns are applied one after the other
RECURSIVE ApplyPatterns(_, _)
ApplyPatterns(content, k) ==
    IF k > Len(ActiveVoicePatterns) THEN content
    ELSE ApplyPatterns(ReplaceIgnoreCase(content, ActiveVoicePatterns[k][1],
                                         ActiveVoicePatterns[k][2]), k + 1)

\* ContentGenerator._convert_to_active_voice
ConvertToActiveVoice(content) ==
    IF ~Truthy(content) THEN content ELSE ApplyPatterns(content, 1)


\* the first place from i on where p stands in s, 0 when there is none
FindSub(s, p, i) ==
    MinOf({j \in i..(Len(s) - Len(p) + 1) : SubSeq(s, j, j + Len(p) - 1) = p})

\* re.finditer(open + r'[^>]*>(.*?)' + close, s, re.DOTALL) from i on: an
\* element starts where open stands, runs to the first '>' and then to the
\* first close after it; the elements do not overlap. With bare = TRUE the
\* pattern is open + r'(.*?)' + close and open ends the opening tag itself.
RECURSIVE ElementsFrom(_, _, _, _, _)
ElementsFrom(s, open, close, bare, i) ==
    LET tagEnd(j) == IF bare THEN j + Len(open) - 1 ELSE FirstGt(s, j + Len(open))
        closeAt(j) == IF tagEnd(j) = 0 THEN 0 ELSE FindSub(s, close, tagEnd(j) + 1)
        a == MinOf({j \in i..(Len(s) - Len(open) + 1) :
                        SubSeq(s, j, j + Len(open) - 1) = open /\ closeAt(j) # 0})
    IN  IF a = 0 THEN << >>
        ELSE << [from |-> a, to |-> closeAt(a) + Len(close) - 1,
                 inner |-> SubSeq(s, tagEnd(a) + 1, closeAt(a) - 1)] >>
             \o ElementsFrom(s, open, close, bare, closeAt(a) + Len(close))

Elements(s, open, close) == ElementsFrom(s, open, close, FALSE, 1)

\* "<ul", "</ul>", "<li", "</li>"
UlOpen == <<60, 117, 108>>
UlClose == <<60, 47, 117, 108, 62>>
LiOpen == <<60, 108, 105>>
LiClose == <<60, 47, 108, 105, 62>>

\* "<ul>\n", "    <li>", "</li>\n", "</ul>"
ListHead == <<60, 117, 108, 62, 10>>
ItemHead == <<32, 32, 32, 32, 60, 108, 105, 62>>
ItemTail == <<60, 47, 108, 105, 62, 10>>
ListTail == <<60, 47, 117, 108, 62>>

\* line 558: an item of more than 15 words is left out
MaxItemWords == 15

\* line 562: a list has at least 3 items
MinListItems == 3

\* line 568: and at most 6
MaxListItems == 6

\* the features of the branch 'impressora' of _generate_product_specific_features
FeaturesImpressora ==
    <<
      <<73, 109, 112, 114, 101, 115, 115, 227, 111, 32, 114, 225, 112, 105, 100, 97, 32,
         100, 101, 32, 97, 116, 233, 32, 51, 56, 32, 112, 225, 103, 105, 110, 97, 115,
         32, 112, 111, 114, 32, 109, 105, 110, 117, 116, 111>>,
      <<67, 111, 110, 101, 99, 116, 105, 118, 105, 100, 97, 100, 101, 32, 85, 83, 66,
         32, 101, 32, 69, 116, 104, 101, 114, 110, 101, 116, 32, 105, 110, 116, 101,
         103, 114, 97, 100, 97>>,
      <<67, 111, 109, 112, 97, 116, 105, 98, 105, 108, 105, 100, 97, 100, 101, 32, 99,
         111, 109, 32, 87, 105, 110, 100, 111, 119, 115, 44, 32, 77, 97, 99, 32, 101,
         32, 76, 105, 110, 117, 120>>,
      <<66, 97, 105, 120, 111, 32, 99, 111, 110, 115, 117, 109, 111, 32, 100, 101, 32,
         101, 110, 101, 114, 103, 105, 97, 32, 101, 109, 32, 115, 116, 97, 110, 100, 98,
         121>>,
      <<66, 97, 110, 100, 101, 106, 97, 32, 99, 111, 109, 32, 99, 97, 112, 97, 99, 105,
         100, 97, 100, 101, 32, 112, 97, 114, 97, 32, 50, 53, 48, 32, 102, 111, 108,
         104, 97, 115>>,
      <<82, 101, 115, 111, 108, 117, 231, 227, 111, 32, 97, 116, 233, 32, 49, 50, 48,
         48, 32, 120, 32, 49, 50, 48, 48, 32, 100, 112, 105>>
    >>

\* the features of the branch 'multifuncional' of _generate_product_specific_features
FeaturesMultifuncional ==
    <<
      <<73, 109, 112, 114, 101, 115, 115, 227, 111, 44, 32, 99, 243, 112, 105, 97, 32,
         101, 32, 115, 99, 97, 110, 32, 101, 109, 32, 117, 109, 32, 101, 113, 117, 105,
         112, 97, 109, 101, 110, 116, 111>>,
      <<83, 99, 97, 110, 110, 101, 114, 32, 99, 111, 109, 32, 114, 101, 115, 111, 108,
         117, 231, 227, 111, 32, 243, 112, 116, 105, 99, 97, 32, 100, 101, 32, 54, 48,
         48, 32, 100, 112, 105>>,
      <<67, 111, 112, 105, 97, 100, 111, 114, 97, 32, 99, 111, 109, 32, 122, 111, 111,
         109, 32, 100, 101, 32, 50, 53, 37, 32, 97, 32, 52, 48, 48, 37>>,
      <<67, 111, 110, 101, 99, 116, 105, 118, 105, 100, 97, 100, 101, 32, 87, 105, 45,
         70, 105, 32, 112, 97, 114, 97, 32, 117, 115, 111, 32, 115, 101, 109, 32, 102,
         105, 111>>,
      <<65, 108, 105, 109, 101, 110, 116, 97, 100, 111, 114, 32, 97, 117, 116, 111, 109,
         225, 116, 105, 99, 111, 32, 100, 101, 32, 100, 111, 99, 117, 109, 101, 110,
         116, 111, 115>>,
      <<83, 111, 102, 116, 119, 97, 114, 101, 32, 100, 101, 32, 100, 105, 103, 105, 116,
         97, 108, 105, 122, 97, 231, 227, 111, 32, 105, 110, 99, 108, 117, 237, 100,
         111>>
    >>

\* the features of the branch 'toner' of _generate_product_specific_features
FeaturesToner ==
    <<
      <<65, 108, 116, 111, 32, 114, 101, 110, 100, 105, 109, 101, 110, 116, 111, 32, 99,
         111, 109, 32, 97, 116, 233, 32, 50, 46, 51, 48, 48, 32, 112, 225, 103, 105,
         110, 97, 115>>,
      <<81, 117, 97, 108, 105, 100, 97, 100, 101, 32, 100, 101, 32, 105, 109, 112, 114,
         101, 115, 115, 227, 111, 32, 112, 114, 111, 102, 105, 115, 115, 105, 111, 110,
         97, 108>>,
      <<73, 110, 115, 116, 97, 108, 97, 231, 227, 111, 32, 114, 225, 112, 105, 100, 97,
         32, 101, 32, 115, 101, 109, 32, 99, 111, 109, 112, 108, 105, 99, 97, 231, 245,
         101, 115>>,
      <<67, 111, 109, 112, 97, 116, 237, 118, 101, 108, 32, 99, 111, 109, 32, 109, 250,
         108, 116, 105, 112, 108, 111, 115, 32, 109, 111, 100, 101, 108, 111, 115>>,
      <<84, 105, 110, 116, 97, 32, 114, 101, 115, 105, 115, 116, 101, 110, 116, 101, 32,
         101, 32, 100, 101, 32, 108, 111, 110, 103, 97, 32, 100, 117, 114, 97, 231, 227,
         111>>,
      <<71, 97, 114, 97, 110, 116, 105, 97, 32, 100, 101, 32, 113, 117, 97, 108, 105,
         100, 97, 100, 101, 32, 99, 111, 109, 112, 114, 111, 118, 97, 100, 97>>
    >>

\* the features of the branch 'papel' of _generate_product_specific_features
FeaturesPapel ==
    <<
      <<71, 114, 97, 109, 97, 116, 117, 114, 97, 32, 55, 53, 103, 47, 109, 178, 32, 112,
         97, 114, 97, 32, 105, 109, 112, 114, 101, 115, 115, 227, 111, 32, 100, 101, 32,
         113, 117, 97, 108, 105, 100, 97, 100, 101>>,
      <<66, 114, 97, 110, 99, 117, 114, 97, 32, 115, 117, 112, 101, 114, 105, 111, 114,
         32, 112, 97, 114, 97, 32, 116, 101, 120, 116, 111, 115, 32, 110, 237, 116, 105,
         100, 111, 115>>,
      <<70, 111, 114, 109, 97, 116, 111, 32, 65, 52, 32, 112, 97, 100, 114, 227, 111,
         32, 117, 110, 105, 118, 101, 114, 115, 97, 108>>,
      <<80, 97, 112, 101, 108, 32, 115, 101, 109, 32, 225, 99, 105, 100, 111, 32, 112,
         97, 114, 97, 32, 100, 117, 114, 97, 98, 105, 108, 105, 100, 97, 100, 101>>,
      <<67, 111, 109, 112, 97, 116, 237, 118, 101, 108, 32, 99, 111, 109, 32, 106, 97,
         116, 111, 32, 100, 101, 32, 116, 105, 110, 116, 97, 32, 101, 32, 108, 97, 115,
         101, 114>>,
      <<69, 109, 98, 97, 108, 97, 103, 101, 109, 32, 114, 101, 115, 105, 115, 116, 101,
         110, 116, 101, 32, 224, 32, 117, 109, 105, 100, 97, 100, 101>>
    >>

\* the features of the branch 'else' of _generate_product_specific_features
FeaturesDefault ==
    <<
      <<81, 117, 97, 108, 105, 100, 97, 100, 101, 32, 115, 117, 112, 101, 114, 105, 111,
         114, 32, 99, 111, 109, 112, 114, 111, 118, 97, 100, 97>>,
      <<69, 120, 99, 101, 108, 101, 110, 116, 101, 32, 99, 117, 115, 116, 111, 45, 98,
         101, 110, 101, 102, 237, 99, 105, 111>>,
      <<71, 97, 114, 97, 110, 116, 105, 97, 32, 100, 101, 32, 115, 97, 116, 105, 115,
         102, 97, 231, 227, 111, 32, 116, 111, 116, 97, 108>>,
      <<67, 111, 109, 112, 97, 116, 105, 98, 105, 108, 105, 100, 97, 100, 101, 32, 99,
         111, 109, 32, 101, 113, 117, 105, 112, 97, 109, 101, 110, 116, 111, 115, 32,
         109, 111, 100, 101, 114, 110, 111, 115>>,
      <<73, 110, 115, 116, 97, 108, 97, 231, 227, 111, 32, 101, 32, 99, 111, 110, 102,
         105, 103, 117, 114, 97, 231, 227, 111, 32, 115, 105, 109, 112, 108, 101, 115>>,
      <<68, 101, 115, 105, 103, 110, 32, 109, 111, 100, 101, 114, 110, 111, 32, 101, 32,
         102, 117, 110, 99, 105, 111, 110, 97, 108>>
    >>

\* "impressora", "multifuncional", "toner", "papel"
WordImpressora == <<105, 109, 112, 114, 101, 115, 115, 111, 114, 97>>
WordMultifuncional == <<109, 117, 108, 116, 105, 102, 117, 110, 99, 105, 111, 110, 97, 108>>
WordToner == <<116, 111, 110, 101, 114>>
WordPapel == <<112, 97, 112, 101, 108>>

\* SEOOptimizer._generate_product_specific_features
GenerateProductSpecificFeatures(keyword, count) ==
    LET keyword_lower == Lower(keyword)
        features == IF Contains(keyword_lower, WordImpressora) THEN FeaturesImpressora
                    ELSE IF Contains(keyword_lower, WordMultifuncional)
                         THEN FeaturesMultifuncional
                    ELSE IF Contains(keyword_lower, WordToner) THEN FeaturesToner
                    ELSE IF Contains(keyword_lower, WordPapel) THEN FeaturesPapel
                    ELSE FeaturesDefault
    IN  Prefix(features, count)

\* improve_list (lines 550-572): the list built from the inside of a <ul>
ImproveList(list_content, keyword) ==
    LET items == Elements(list_content, LiOpen, LiClose)
        texts == [k \in 1..Len(items) |-> Strip(StripTags(items[k].inner))]
        clean_items == SelectSeq(texts, LAMBDA t : t # << >> /\ WordCount(t) <= MaxItemWords)
        filled == IF Len(clean_items) < MinListItems
                  THEN clean_items \o GenerateProductSpecificFeatures(keyword,
                                          MinListItems - Len(clean_items))
                  ELSE clean_items
        shown == Prefix(filled, MaxListItems)
    IN  ListHead \o Join([k \in 1..Len(shown) |-> ItemHead \o shown[k] \o ItemTail])
            \o ListTail

\* re.sub over the lists found: what stands between them is kept
RECURSIVE RebuildLists(_, _, _, _, _)
RebuildLists(s, lists, keyword, k, i) ==
    IF k > Len(lists) THEN SubSeq(s, i, Len(s))
    ELSE SubSeq(s, i, lists[k].from - 1) \o ImproveList(lists[k].inner, keyword)
            \o RebuildLists(s, lists, keyword, k + 1, lists[k].to + 1)

\* SEOOptimizer._optimize_lists_enhanced
OptimizeListsEnhanced(content, keyword) ==
    RebuildLists(content, Elements(content, UlOpen, UlClose), keyword, 1, 1)


\* str.isalpha() on one character
IsAlphaC(c) == IsCased(c) \/ c \in {170, 181, 186, 223, 255}

\* "produto", "hp", "laserjet", "hp laserjet", "hp ", "hp impressora"
KeywordDefault == <<112, 114, 111, 100, 117, 116, 111>>
WordHp == <<104, 112>>
WordLaserjet == <<108, 97, 115, 101, 114, 106, 101, 116>>
KeywordHpLaserjet == <<104, 112, 32, 108, 97, 115, 101, 114, 106, 101, 116>>
KeywordHpImpressora == <<104, 112, 32, 105, 109, 112, 114, 101, 115, 115, 111, 114, 97>>

\* line 590: a, o, de, da, do, com, para, em, na, no, impressora,
\* multifuncional
ExtractStopWords ==
    { <<97>>, <<111>>, <<100, 101>>, <<100, 97>>, <<100, 111>>, <<99, 111, 109>>,
      <<112, 97, 114, 97>>, <<101, 109>>, <<110, 97>>, <<110, 111>>,
      WordImpressora, WordMultifuncional }

\* line 595: a significant word has more than 2 characters
SignificantMinLen == 2

\* line 607: a technical word has more than 3
TechMinLen == 3

\* line 602: the keyword is made of 2 words
KeywordWords == 2

\* re.search(r'(m\d+\w*)', s): the first 'm' that a digit follows, with the
\* digits, letters and underscores after it; << >> when there is none
ModelMatch(s) ==
    LET a == MinOf({i \in 1..(Len(s) - 1) : s[i] = 109 /\ IsDigitC(s[i + 1])})
        stop == MinOf({j \in (a + 1)..Len(s) : ~IsWordC(s[j])})
    IN  IF a = 0 THEN << >>
        ELSE SubSeq(s, a, IF stop = 0 THEN Len(s) ELSE stop - 1)

\* ContentGenerator._extract_keyword_from_product
ExtractKeywordFromProduct(product_name) ==
    IF ~Truthy(product_name) THEN KeywordDefault
    ELSE
    LET clean_name == Lower(Strip(product_name))
        words == SplitWs(clean_name)
        significant_words ==
            SelectSeq(words, LAMBDA w : /\ w \notin ExtractStopWords
                                       /\ Len(w) > SignificantMinLen
                                       /\ \A i \in 1..Len(w) : IsAlphaC(w[i]))
        tech_words ==
            SelectSeq(words, LAMBDA w : /\ w \notin ExtractStopWords
                                       /\ w # WordHp
                                       /\ Len(w) > TechMinLen)
    IN  IF Contains(clean_name, WordHp) /\ Contains(clean_name, WordLaserjet)
        THEN IF ModelMatch(clean_name) # << >>
             THEN KeywordHpLaserjet \o <<32>> \o ModelMatch(clean_name)
             ELSE KeywordHpLaserjet
        ELSE IF Len(significant_words) >= KeywordWords
        THEN JoinSep(Prefix(significant_words, KeywordWords), <<32>>)
        ELSE IF significant_words # << >>
        THEN IF \E k \in 1..Len(words) : words[k] = WordHp
             THEN IF tech_words # << >> THEN WordHp \o <<32>> \o tech_words[1]
                  ELSE KeywordHpImpressora
             ELSE significant_words[1]
        ELSE Lower(JoinSep(Prefix(SplitWs(product_name), KeywordWords), <<32>>))

\* "<p>", "</p>", ". "
POpen == <<60, 112, 62>>
PClose == <<60, 47, 112, 62>>
SentenceSep == <<46, 32>>

\* line 452: the keyword is looked for in the first 100 characters
LeadWindow == 100

\* line 470: the name of a product has at least 3 characters
MinProductNameLen == 3

\* "equipamento", "equipamento multifuncional"
ProductDefault == <<101, 113, 117, 105, 112, 97, 109, 101, 110, 116, 111>>
ProductDefaultLong == <<101, 113, 117, 105, 112, 97, 109, 101, 110, 116, 111, 32, 109, 117, 108, 116, 105,
      102, 117, 110, 99, 105, 111, 110, 97, 108>>

\* " é uma excelente opção para quem busca qualidade e desempenho"
LeadClause ==
    <<32, 233, 32, 117, 109, 97, 32, 101, 120, 99, 101, 108, 101, 110, 116, 101, 32,
      111, 112, 231, 227, 111, 32, 112, 97, 114, 97, 32, 113, 117, 101, 109, 32, 98,
      117, 115, 99, 97, 32, 113, 117, 97, 108, 105, 100, 97, 100, 101, 32, 101, 32,
      100, 101, 115, 101, 109, 112, 101, 110, 104, 111>>

\* " Para adquirir este produto, acesse: ", " Para comprar, acesse: "
BuyLeadLong == <<32, 80, 97, 114, 97, 32, 97, 100, 113, 117, 105, 114, 105, 114, 32, 101, 115, 116,
      101, 32, 112, 114, 111, 100, 117, 116, 111, 44, 32, 97, 99, 101, 115, 115,
      101, 58, 32>>
BuyLeadShort == <<32, 80, 97, 114, 97, 32, 99, 111, 109, 112, 114, 97, 114, 44, 32, 97, 99, 101,
      115, 115, 101, 58, 32>>

\* the pieces of the link: '<a href="https://creativecopias.com.br/produto/',
\* '" target="_blank" rel="noopener"><strong>Comprar ', '</strong></a>'
BuyLinkHead ==
    <<60, 97, 32, 104, 114, 101, 102, 61, 34, 104, 116, 116, 112, 115, 58, 47, 47, 99,
      114, 101, 97, 116, 105, 118, 101, 99, 111, 112, 105, 97, 115, 46, 99, 111,
      109, 46, 98, 114, 47, 112, 114, 111, 100, 117, 116, 111, 47>>
BuyLinkMiddle ==
    <<34, 32, 116, 97, 114, 103, 101, 116, 61, 34, 95, 98, 108, 97, 110, 107, 34, 32,
      114, 101, 108, 61, 34, 110, 111, 111, 112, 101, 110, 101, 114, 34, 62, 60,
      115, 116, 114, 111, 110, 103, 62, 67, 111, 109, 112, 114, 97, 114, 32>>
BuyLinkTail == <<60, 47, 115, 116, 114, 111, 110, 103, 62, 60, 47, 97, 62>>

\* line 464: re.sub(r'[^a-z0-9]+', '-', product_name.lower()).strip('-')
ProductSlug(product_name) ==
    StripChars(CollapseRuns(Lower(product_name),
                            Latin1 \ ((97..122) \cup (48..57)), 45), {45})

\* line 465: the link is built from the name as it was given
BuyLink(product_name) ==
    BuyLinkHead \o ProductSlug(product_name) \o BuyLinkMiddle \o product_name
        \o BuyLinkTail

\* lines 468-471
CheckedProductName(product_name) ==
    LET named == IF ~Truthy(product_name) \/ Strip(product_name) = << >>
                 THEN ProductDefault ELSE product_name
    IN  IF Len(Strip(named)) < MinProductNameLen THEN ProductDefaultLong ELSE named

\* lines 458-461
LeadArticle(product_name) ==
    IF \E w \in {WordImpressora, WordMultifuncional,
                 <<99, 111, 112, 105, 97, 100, 111, 114, 97>>} :
           Contains(Lower(product_name), w)
    THEN <<65>> ELSE <<79>>

\* lines 455-477: the first paragraph with its first sentence replaced;
\* '. '.join(sentences[1:]) is what follows the first ". " of the paragraph
EnhancedParagraph(first_p, product_name) ==
    LET cut == FindSub(first_p, SentenceSep, 1)
        new_first_sentence == LeadArticle(product_name) \o <<32>>
                                  \o CheckedProductName(product_name) \o LeadClause
    IN  IF cut # 0
        THEN new_first_sentence \o SentenceSep
                 \o SubSeq(first_p, cut + Len(SentenceSep), Len(first_p))
                 \o BuyLeadLong \o BuyLink(product_name) \o <<46>>
        ELSE new_first_sentence \o SentenceSep \o first_p
                 \o BuyLeadShort \o BuyLink(product_name) \o <<46>>

\* content.replace(old, new, 1)
ReplaceFirst(s, old, new) ==
    LET a == FindSub(s, old, 1)
    IN  IF a = 0 THEN s
        ELSE SubSeq(s, 1, a - 1) \o new \o SubSeq(s, a + Len(old), Len(s))

\* ContentGenerator._ensure_keyword_in_first_paragraph, for a product name
\* that is a string
EnsureKeywordInFirstParagraph(content, product_name) ==
    LET keyword == ExtractKeywordFromProduct(product_name)
        found == ElementsFrom(content, POpen, PClose, TRUE, 1)
        first_p == Strip(found[1].inner)
        first_100 == Lower(Prefix(first_p, LeadWindow))
    IN  IF found = << >> \/ Contains(first_100, Lower(keyword)) THEN content
        ELSE ReplaceFirst(content, POpen \o first_p \o PClose,
                          POpen \o EnhancedParagraph(first_p, product_name) \o PClose)

-----------------------------------------------------------------------------
(* PublicationManager._optimize_content_for_yoast_green: the steps around  *)
(* the opener and the density step, and the whole function                  *)

\* "\n\n"
ParaSep == <<10, 10>>

\* line 483: 'creativecopias.com.br'
InternalDomain == <<99, 114, 101, 97, 116, 105, 118, 101, 99, 111, 112, 105, 97, 115, 46, 99, 111,
      109, 46, 98, 114>>

\* line 484: 'canon.com', 'hp.com', 'epson.com', 'brother.com'
ExternalDomains ==
    { <<99, 97, 110, 111, 110, 46, 99, 111, 109>>, <<104, 112, 46, 99, 111, 109>>, <<101, 112, 115, 111, 110, 46, 99, 111, 109>>, <<98, 114, 111, 116, 104, 101, 114, 46, 99, 111, 109>> }

\* line 487
LinkInterno ==
    <<60, 97, 32, 104, 114, 101, 102, 61, 34, 104, 116, 116, 112, 115, 58, 47, 47, 98,
      108, 111, 103, 46, 99, 114, 101, 97, 116, 105, 118, 101, 99, 111, 112, 105,
      97, 115, 46, 99, 111, 109, 46, 98, 114, 47, 99, 97, 116, 101, 103, 111, 114,
      105, 97, 47, 105, 109, 112, 114, 101, 115, 115, 111, 114, 97, 115, 47, 34, 62,
      86, 101, 106, 97, 32, 109, 97, 105, 115, 32, 105, 109, 112, 114, 101, 115,
      115, 111, 114, 97, 115, 60, 47, 97, 62>>

\* lines 501 and 507, 503, 505
LinkCanon ==
    <<60, 97, 32, 104, 114, 101, 102, 61, 34, 104, 116, 116, 112, 115, 58, 47, 47, 119,
      119, 119, 46, 99, 97, 110, 111, 110, 46, 99, 111, 109, 46, 98, 114, 34, 32,
      114, 101, 108, 61, 34, 110, 111, 102, 111, 108, 108, 111, 119, 34, 32, 116,
      97, 114, 103, 101, 116, 61, 34, 95, 98, 108, 97, 110, 107, 34, 62, 83, 105,
      116, 101, 32, 111, 102, 105, 99, 105, 97, 108, 32, 100, 97, 32, 67, 97, 110,
      111, 110, 60, 47, 97, 62>>
LinkHpSite ==
    <<60, 97, 32, 104, 114, 101, 102, 61, 34, 104, 116, 116, 112, 115, 58, 47, 47, 119,
      119, 119, 46, 104, 112, 46, 99, 111, 109, 46, 98, 114, 34, 32, 114, 101, 108,
      61, 34, 110, 111, 102, 111, 108, 108, 111, 119, 34, 32, 116, 97, 114, 103,
      101, 116, 61, 34, 95, 98, 108, 97, 110, 107, 34, 62, 83, 105, 116, 101, 32,
      111, 102, 105, 99, 105, 97, 108, 32, 100, 97, 32, 72, 80, 60, 47, 97, 62>>
LinkEpson ==
    <<60, 97, 32, 104, 114, 101, 102, 61, 34, 104, 116, 116, 112, 115, 58, 47, 47, 119,
      119, 119, 46, 101, 112, 115, 111, 110, 46, 99, 111, 109, 46, 98, 114, 34, 32,
      114, 101, 108, 61, 34, 110, 111, 102, 111, 108, 108, 111, 119, 34, 32, 116,
      97, 114, 103, 101, 116, 61, 34, 95, 98, 108, 97, 110, 107, 34, 62, 83, 105,
      116, 101, 32, 111, 102, 105, 99, 105, 97, 108, 32, 100, 97, 32, 69, 112, 115,
      111, 110, 60, 47, 97, 62>>

\* "canon", "epson"
WordCanon == <<99, 97, 110, 111, 110>>
WordEpson == <<101, 112, 115, 111, 110>>

\* lines 498-510: the link of the brand the phrase names, Canon's otherwise
LinkExterno(focus_keyphrase) ==
    IF Contains(Lower(focus_keyphrase), WordCanon) THEN LinkCanon
    ELSE IF Contains(Lower(focus_keyphrase), WordHp) THEN LinkHpSite
    ELSE IF Contains(Lower(focus_keyphrase), WordEpson) THEN LinkEpson
    ELSE LinkCanon

\* step 1 (lines 481-511): the internal link goes after the middle paragraph
\* (or at the end of a body of one paragraph), the external one at the end;
\* both tests read the body as it came in
InjectLinks(content, focus_keyphrase) ==
    LET has_internal == Contains(content, InternalDomain)
        has_external == \E domain \in ExternalDomains : Contains(content, domain)
        paragraphs == SplitParas(content)
        meio == Len(paragraphs) \div 2
        with_internal ==
            IF has_internal THEN content
            ELSE IF Len(paragraphs) >= 2
            THEN JoinSep([i \in 1..Len(paragraphs) |->
                            IF i = meio + 1
                            THEN paragraphs[i] \o ParaSep \o LinkInterno
                            ELSE paragraphs[i]], ParaSep)
            ELSE content \o ParaSep \o LinkInterno
    IN  IF has_external THEN with_internal
        ELSE with_internal \o ParaSep \o LinkExterno(focus_keyphrase)

\* lines 514-520
TransitionWords ==
    << <<65, 108, 233, 109, 32, 100, 105, 115, 115, 111, 44>>, <<80, 111, 114, 116, 97, 110, 116, 111, 44>>, <<78, 111, 32, 101, 110, 116, 97, 110, 116, 111, 44>>, <<68, 101, 115, 115, 97, 32, 102, 111, 114, 109, 97, 44>>,
       <<80, 111, 114, 32, 111, 117, 116, 114, 111, 32, 108, 97, 100, 111, 44>>, <<69, 109, 32, 114, 101, 115, 117, 109, 111, 44>>, <<67, 111, 110, 115, 101, 113, 117, 101, 110, 116, 101, 109, 101, 110, 116, 101,
      44>>, <<68, 101, 32, 102, 97, 116, 111, 44>>,
       <<65, 105, 110, 100, 97, 32, 97, 115, 115, 105, 109, 44>>, <<80, 111, 114, 32, 102, 105, 109, 44>>, <<65, 100, 105, 99, 105, 111, 110, 97, 108, 109, 101, 110, 116, 101, 44>>, <<86, 97, 108, 101, 32, 100, 101, 115, 116, 97, 99, 97, 114, 32, 113, 117, 101>>,
       <<201, 32, 105, 109, 112, 111, 114, 116, 97, 110, 116, 101, 32, 110, 111, 116, 97,
      114, 32, 113, 117, 101>>, <<78, 101, 115, 115, 101, 32, 115, 101, 110, 116, 105, 100, 111, 44>>, <<80, 111, 114, 32, 101, 115, 115, 97, 32, 114, 97, 122, 227, 111, 44>>,
       <<69, 109, 32, 99, 111, 110, 116, 114, 97, 112, 97, 114, 116, 105, 100, 97, 44>>, <<65, 115, 115, 105, 109, 32, 115, 101, 110, 100, 111, 44>>, <<68, 101, 115, 115, 101, 32, 109, 111, 100, 111, 44>>, <<67, 101, 114, 116, 97, 109, 101, 110, 116, 101, 44>>,
       <<83, 111, 98, 114, 101, 116, 117, 100, 111, 44>>, <<80, 114, 105, 110, 99, 105, 112, 97, 108, 109, 101, 110, 116, 101, 44>>, <<69, 115, 112, 101, 99, 105, 97, 108, 109, 101, 110, 116, 101, 44>>, <<80, 97, 114, 116, 105, 99, 117, 108, 97, 114, 109, 101, 110, 116, 101, 44>> >>

\* line 527: paragraphs under 50 characters are passed over
TransitionMinPara == 50

\* line 540: sentences under 10 characters are passed over
TransitionMinSentence == 10

\* line 545
HasTransition(sentence) ==
    \E k \in DOMAIN TransitionWords :
        Contains(Lower(sentence), Lower(TransitionWords[k]))

\* line 558: "O ", "A ", "E "
LoweredStarts == { <<79, 32>>, <<65, 32>>, <<69, 32>> }

\* lines 538-564, the iterations from index i on (i counts from 0)
RECURSIVE TransitionLoop(_, _, _, _)
TransitionLoop(sentences, i, transitions_added, improved_sentences) ==
    IF i >= Len(sentences) THEN improved_sentences
    ELSE
    LET sentence == Strip(sentences[i + 1])
        target_transitions == Max2(1, Len(sentences) \div 2)
        should_add_transition ==
            /\ Len(sentence) >= TransitionMinSentence
            /\ ~HasTransition(sentence)
            /\ transitions_added < target_transitions
            /\ i > 0
            /\ (i = 1 \/ i % 2 = 1 \/ transitions_added < Len(sentences) \div 2)
        transition == TransitionWords[(transitions_added % Len(TransitionWords)) + 1]
        lowered == \/ ~IsUpperC(sentence[1])
                   \/ \E p \in LoweredStarts : StartsWith(sentence, p)
        new == IF should_add_transition
               THEN transition \o <<32>> \o (IF lowered THEN Lower(sentence) ELSE sentence)
               ELSE sentence
    IN  TransitionLoop(sentences, i + 1,
                       IF should_add_transition THEN transitions_added + 1
                       ELSE transitions_added,
                       Append(improved_sentences, new))

\* lines 526-566: one paragraph
TransitionParagraph(paragraph) ==
    IF Len(Strip(paragraph)) < TransitionMinPara THEN paragraph
    ELSE JoinSep(TransitionLoop(SplitSentences(paragraph), 0, 0, << >>), <<32>>)

\* step 2 (lines 513-569)
AddTransitions(content) ==
    LET paragraphs == SplitParas(content)
    IN  JoinSep([i \in 1..Len(paragraphs) |-> TransitionParagraph(paragraphs[i])],
                ParaSep)

\* "## ", "### ", ": "
H2Mark == <<35, 35, 32>>
H3Mark == <<35, 35, 35, 32>>
HeadingSep == <<58, 32>>

\* lines 605-606: '^## (.+)$' and '^### (.+)$' on a stripped line
IsH2(line_stripped) == StartsWith(line_stripped, H2Mark) /\ Len(line_stripped) > Len(H2Mark)
IsH3(line_stripped) == StartsWith(line_stripped, H3Mark) /\ Len(line_stripped) > Len(H3Mark)

\* lines 614-615
MainKeyword(focus_keyphrase) ==
    LET keyphrase_parts == SplitWs(focus_keyphrase)
    IN  IF keyphrase_parts # << >> THEN keyphrase_parts[1] ELSE focus_keyphrase

\* lines 627 and 645
HeadingHasKeyphrase(heading_text, focus_keyphrase) ==
    \/ Contains(Lower(heading_text), Lower(focus_keyphrase))
    \/ Contains(Lower(heading_text), Lower(MainKeyword(focus_keyphrase)))

\* lines 617-657: one line
HeadingLine(line, focus_keyphrase) ==
    LET line_stripped == Strip(line)
        mark == IF IsH2(line_stripped) THEN H2Mark ELSE H3Mark
        heading_text == SubSeq(line_stripped, Len(mark) + 1, Len(line_stripped))
    IN  IF ~(IsH2(line_stripped) \/ IsH3(line_stripped)) THEN line
        ELSE IF HeadingHasKeyphrase(heading_text, focus_keyphrase) THEN line
        ELSE mark \o TitleCase(MainKeyword(focus_keyphrase)) \o HeadingSep \o heading_text

\* line 667: "\n## {main_keyword.title()}: Características Principais\n"
NewHeading(focus_keyphrase) ==
    <<10>> \o H2Mark \o TitleCase(MainKeyword(focus_keyphrase))
        \o <<58, 32, 67, 97, 114, 97, 99, 116, 101, 114, 237, 115, 116, 105, 99, 97, 115, 32,
      80, 114, 105, 110, 99, 105, 112, 97, 105, 115, 10>>

\* step 4 (lines 603-671): the Markdown headings take the first word of the
\* phrase; a body without a heading and of two paragraphs or more takes one
\* before its middle paragraph
HeadingKeyphrase(content, focus_keyphrase) ==
    LET lines == SplitOn(content, 10)
        processed == JoinSep([i \in 1..Len(lines) |->
                                HeadingLine(lines[i], focus_keyphrase)], <<10>>)
        subtitles_found ==
            Cardinality({i \in 1..Len(lines) :
                            IsH2(Strip(lines[i])) \/ IsH3(Strip(lines[i]))})
        paragraphs == SplitParas(processed)
        meio == Len(paragraphs) \div 2
    IN  IF subtitles_found = 0 /\ Len(paragraphs) >= 2
        THEN JoinSep(SubSeq(paragraphs, 1, meio) \o << NewHeading(focus_keyphrase) >>
                         \o SubSeq(paragraphs, meio + 1, Len(paragraphs)), ParaSep)
        ELSE processed

\* line 679: 'a ', 'o ', 'as ', 'os '
ArticleStarts == { <<97, 32>>, <<111, 32>>, <<97, 115, 32>>, <<111, 115, 32>> }

\* lines 680 and 699: " é uma excelente opção para quem busca qualidade e
\* eficiência. "
GreenLeadClause ==
    <<32, 233, 32, 117, 109, 97, 32, 101, 120, 99, 101, 108, 101, 110, 116, 101, 32,
      111, 112, 231, 227, 111, 32, 112, 97, 114, 97, 32, 113, 117, 101, 109, 32, 98,
      117, 115, 99, 97, 32, 113, 117, 97, 108, 105, 100, 97, 100, 101, 32, 101, 32,
      101, 102, 105, 99, 105, 234, 110, 99, 105, 97, 46, 32>>

\* lines 685-693
GreenProductName(produto_nome, focus_keyphrase) ==
    LET product_name == IF Truthy(produto_nome) THEN produto_nome ELSE focus_keyphrase
        named == IF ~Truthy(product_name) \/ Strip(product_name) = << >>
                 THEN (IF Truthy(focus_keyphrase) THEN focus_keyphrase ELSE ProductDefault)
                 ELSE product_name
    IN  IF ~Truthy(named) \/ Len(Strip(named)) < MinProductNameLen
        THEN ProductDefaultLong ELSE named

\* lines 676-699: the first paragraph with the sentence about the product
\* before it and, for a phrase without an article, the link to buy after it
GreenLead(first, focus_keyphrase, produto_nome) ==
    LET product_name == GreenProductName(produto_nome, focus_keyphrase)
    IN  IF Strip(focus_keyphrase) = << >> THEN first
        ELSE IF \E a \in ArticleStarts : StartsWith(Lower(focus_keyphrase), a)
        THEN TitleCase(IF Truthy(produto_nome) THEN produto_nome ELSE focus_keyphrase)
                 \o GreenLeadClause \o first
        ELSE LeadArticle(focus_keyphrase) \o <<32>> \o product_name \o GreenLeadClause
                 \o first \o BuyLeadLong \o BuyLink(product_name) \o <<46>>

\* step 5 (lines 673-702)
KeyphraseInFirstParagraph(content, focus_keyphrase, produto_nome) ==
    LET paragraphs == SplitParas(content)
    IN  IF Contains(Lower(paragraphs[1]), Lower(focus_keyphrase)) THEN content
        ELSE JoinSep([i \in 1..Len(paragraphs) |->
                        IF i = 1 THEN GreenLead(paragraphs[1], focus_keyphrase, produto_nome)
                        ELSE paragraphs[i]], ParaSep)

\* '<img', '<img ', 'alt=', 'alt="'
ImgOpen == <<60, 105, 109, 103>>
ImgOpenSpace == <<60, 105, 109, 103, 32>>
AltAttr == <<97, 108, 116, 61>>
AltOpen == <<97, 108, 116, 61, 34>>

\* lines 727 and 730: ' - principais características"'
AltTail == <<32, 45, 32, 112, 114, 105, 110, 99, 105, 112, 97, 105, 115, 32, 99, 97, 114, 97,
      99, 116, 101, 114, 237, 115, 116, 105, 99, 97, 115, 34>>

\* s.replace(old, new) for a non-empty old
ReplaceAll(s, old, new) ==
    ReplaceFrom(s, {i \in 1..(Len(s) - Len(old) + 1) : SubSeq(s, i, i + Len(old) - 1) = old},
                Len(old), new, 1)

\* line 730: re.sub(r'alt="[^"]*"', new, img_tag), from position i on
RECURSIVE AltSubFrom(_, _, _)
AltSubFrom(img_tag, new, i) ==
    LET closing(j) == MinOf({k \in (j + Len(AltOpen))..Len(img_tag) : img_tag[k] = 34})
        a == MinOf({j \in i..(Len(img_tag) - Len(AltOpen) + 1) :
                       /\ SubSeq(img_tag, j, j + Len(AltOpen) - 1) = AltOpen
                       /\ closing(j) # 0})
    IN  IF a = 0 THEN SubSeq(img_tag, i, Len(img_tag))
        ELSE SubSeq(img_tag, i, a - 1) \o new \o AltSubFrom(img_tag, new, closing(a) + 1)

\* lines 724-731
FixAlt(img_tag, focus_keyphrase) ==
    IF ~Contains(img_tag, AltAttr)
    THEN ReplaceAll(img_tag, ImgOpenSpace,
                    ImgOpenSpace \o AltOpen \o focus_keyphrase \o AltTail \o <<32>>)
    ELSE IF ~Contains(Lower(img_tag), Lower(focus_keyphrase))
    THEN AltSubFrom(img_tag, AltOpen \o focus_keyphrase \o AltTail, 1)
    ELSE img_tag

\* step 7 (line 733): re.sub(r'<img[^>]*>', fix_alt, content), from i on
RECURSIVE ImageAltFrom(_, _, _)
ImageAltFrom(content, focus_keyphrase, i) ==
    LET a == MinOf({j \in i..(Len(content) - Len(ImgOpen) + 1) :
                       /\ SubSeq(content, j, j + Len(ImgOpen) - 1) = ImgOpen
                       /\ FirstGt(content, j + Len(ImgOpen)) # 0})
        b == FirstGt(content, a + Len(ImgOpen))
    IN  IF a = 0 THEN SubSeq(content, i, Len(content))
        ELSE SubSeq(content, i, a - 1) \o FixAlt(SubSeq(content, a, b), focus_keyphrase)
                 \o ImageAltFrom(content, focus_keyphrase, b + 1)

ImageAlt(content, focus_keyphrase) == ImageAltFrom(content, focus_keyphrase, 1)

\* _optimize_content_for_yoast_green (lines 473-751) for a body, a phrase and
\* a product name that are strings: the seven steps in their order, each one
\* applied to the value the step before it returned
OptimizeContentForYoastGreen(content, focus_keyphrase, produto_nome) ==
    CHOOSE result \in
        { ImageAlt(dense, focus_keyphrase) : dense \in
        { DensityStep(led, focus_keyphrase) : led \in
        { KeyphraseInFirstParagraph(headed, focus_keyphrase, produto_nome) : headed \in
        { HeadingKeyphrase(varied, focus_keyphrase) : varied \in
        { DiversifyOpeners(joined) : joined \in
        { AddTransitions(linked) : linked \in
        { InjectLinks(content, focus_keyphrase) } } } } } } } : TRUE

-----------------------------------------------------------------------------
(* ContentGenerator._ensure_minimum_content_length, _generate_additional_   *)
(* content and _add_mandatory_internal_links                                *)

\* line 269: a body under 300 words is extended
MinContentWords == 300

\* lines 286-311: the three sections, the product name in its places
\* "<h3>Vantagens do {product_name} para Seu Escritório</h3> <p>..."
AdditionalSection1(product_name) ==
    <<10, 32, 32, 32, 32, 32, 32, 32, 32, 32, 32, 32, 32, 60, 104, 51, 62, 86, 97, 110,
       116, 97, 103, 101, 110, 115, 32, 100, 111, 32>>
        \o product_name \o
    <<32, 112, 97, 114, 97, 32, 83, 101, 117, 32, 69, 115, 99, 114, 105, 116, 243, 114,
       105, 111, 60, 47, 104, 51, 62, 10, 32, 32, 32, 32, 32, 32, 32, 32, 32, 32, 32,
       32, 60, 112, 62, 79, 32>>
        \o product_name \o
    <<32, 111, 102, 101, 114, 101, 99, 101, 32, 98, 101, 110, 101, 102, 237, 99, 105,
       111, 115, 32, 101, 115, 112, 101, 99, 237, 102, 105, 99, 111, 115, 32, 112, 97,
       114, 97, 32, 97, 109, 98, 105, 101, 110, 116, 101, 115, 32, 112, 114, 111, 102,
       105, 115, 115, 105, 111, 110, 97, 105, 115, 46, 32, 65, 108, 233, 109, 32, 100,
       105, 115, 115, 111, 44, 32, 115, 117, 97, 32, 10, 32, 32, 32, 32, 32, 32, 32, 32,
       32, 32, 32, 32, 116, 101, 99, 110, 111, 108, 111, 103, 105, 97, 32, 97, 118, 97,
       110, 231, 97, 100, 97, 32, 103, 97, 114, 97, 110, 116, 101, 32, 112, 114, 111,
       100, 117, 116, 105, 118, 105, 100, 97, 100, 101, 32, 99, 111, 110, 115, 116, 97,
       110, 116, 101, 46, 32, 80, 111, 114, 116, 97, 110, 116, 111, 44, 32, 233, 32,
       117, 109, 97, 32, 101, 115, 99, 111, 108, 104, 97, 32, 105, 110, 116, 101, 108,
       105, 103, 101, 110, 116, 101, 32, 112, 97, 114, 97, 32, 10, 32, 32, 32, 32, 32,
       32, 32, 32, 32, 32, 32, 32, 101, 109, 112, 114, 101, 115, 97, 115, 32, 113, 117,
       101, 32, 98, 117, 115, 99, 97, 109, 32, 101, 102, 105, 99, 105, 234, 110, 99,
       105, 97, 46, 32, 69, 109, 32, 112, 114, 105, 109, 101, 105, 114, 111, 32, 108,
       117, 103, 97, 114, 44, 32, 100, 101, 115, 116, 97, 99, 97, 45, 115, 101, 32, 112,
       101, 108, 97, 32, 99, 111, 110, 102, 105, 97, 98, 105, 108, 105, 100, 97, 100,
       101, 32, 111, 112, 101, 114, 97, 99, 105, 111, 110, 97, 108, 46, 60, 47, 112, 62,
       10, 32, 32, 32, 32, 32, 32, 32, 32, 32, 32, 32, 32>>

\* "<h3>Especificações Técnicas Detalhadas</h3> <ul> <li>Tecnolo..."
AdditionalSection2(product_name) ==
    <<10, 32, 32, 32, 32, 32, 32, 32, 32, 32, 32, 32, 32, 60, 104, 51, 62, 69, 115, 112,
       101, 99, 105, 102, 105, 99, 97, 231, 245, 101, 115, 32, 84, 233, 99, 110, 105,
       99, 97, 115, 32, 68, 101, 116, 97, 108, 104, 97, 100, 97, 115, 60, 47, 104, 51,
       62, 10, 32, 32, 32, 32, 32, 32, 32, 32, 32, 32, 32, 32, 60, 117, 108, 62, 10, 32,
       32, 32, 32, 32, 32, 32, 32, 32, 32, 32, 32, 32, 32, 32, 32, 60, 108, 105, 62, 84,
       101, 99, 110, 111, 108, 111, 103, 105, 97, 32, 100, 101, 32, 105, 109, 112, 114,
       101, 115, 115, 227, 111, 32, 108, 97, 115, 101, 114, 32, 100, 101, 32, 97, 108,
       116, 97, 32, 112, 114, 101, 99, 105, 115, 227, 111, 60, 47, 108, 105, 62, 10, 32,
       32, 32, 32, 32, 32, 32, 32, 32, 32, 32, 32, 32, 32, 32, 32, 60, 108, 105, 62, 86,
       101, 108, 111, 99, 105, 100, 97, 100, 101, 32, 111, 116, 105, 109, 105, 122, 97,
       100, 97, 32, 112, 97, 114, 97, 32, 118, 111, 108, 117, 109, 101, 115, 32, 109,
       233, 100, 105, 111, 115, 32, 101, 32, 97, 108, 116, 111, 115, 60, 47, 108, 105,
       62, 10, 32, 32, 32, 32, 32, 32, 32, 32, 32, 32, 32, 32, 32, 32, 32, 32, 60, 108,
       105, 62, 67, 111, 110, 101, 99, 116, 105, 118, 105, 100, 97, 100, 101, 32, 85,
       83, 66, 32, 101, 32, 114, 101, 100, 101, 32, 69, 116, 104, 101, 114, 110, 101,
       116, 60, 47, 108, 105, 62, 10, 32, 32, 32, 32, 32, 32, 32, 32, 32, 32, 32, 32,
       32, 32, 32, 32, 60, 108, 105, 62, 67, 111, 109, 112, 97, 116, 105, 98, 105, 108,
       105, 100, 97, 100, 101, 32, 117, 110, 105, 118, 101, 114, 115, 97, 108, 32, 99,
       111, 109, 32, 115, 105, 115, 116, 101, 109, 97, 115, 32, 87, 105, 110, 100, 111,
       119, 115, 32, 101, 32, 77, 97, 99, 60, 47, 108, 105, 62, 10, 32, 32, 32, 32, 32,
       32, 32, 32, 32, 32, 32, 32, 32, 32, 32, 32, 60, 108, 105, 62, 67, 105, 99, 108,
       111, 32, 100, 101, 32, 116, 114, 97, 98, 97, 108, 104, 111, 32, 109, 101, 110,
       115, 97, 108, 32, 114, 111, 98, 117, 115, 116, 111, 60, 47, 108, 105, 62, 10, 32,
       32, 32, 32, 32, 32, 32, 32, 32, 32, 32, 32, 60, 47, 117, 108, 62, 10, 32, 32, 32,
       32, 32, 32, 32, 32, 32, 32, 32, 32, 60, 112, 62, 69, 115, 115, 97, 115, 32, 99,
       97, 114, 97, 99, 116, 101, 114, 237, 115, 116, 105, 99, 97, 115, 32, 116, 233,
       99, 110, 105, 99, 97, 115, 32, 102, 97, 122, 101, 109, 32, 100, 111, 32>>
        \o product_name \o
    <<32, 117, 109, 97, 32, 115, 111, 108, 117, 231, 227, 111, 32, 99, 111, 109, 112,
       108, 101, 116, 97, 46, 32, 67, 111, 110, 115, 101, 113, 117, 101, 110, 116, 101,
       109, 101, 110, 116, 101, 44, 32, 10, 32, 32, 32, 32, 32, 32, 32, 32, 32, 32, 32,
       32, 97, 116, 101, 110, 100, 101, 32, 224, 115, 32, 100, 101, 109, 97, 110, 100,
       97, 115, 32, 109, 97, 105, 115, 32, 101, 120, 105, 103, 101, 110, 116, 101, 115,
       32, 100, 111, 32, 109, 101, 114, 99, 97, 100, 111, 32, 99, 111, 114, 112, 111,
       114, 97, 116, 105, 118, 111, 46, 60, 47, 112, 62, 10, 32, 32, 32, 32, 32, 32, 32,
       32, 32, 32, 32, 32>>

\* "<h3>Comparativo com Concorrentes</h3> <p>Em comparação com o..."
AdditionalSection3(product_name) ==
    <<10, 32, 32, 32, 32, 32, 32, 32, 32, 32, 32, 32, 32, 60, 104, 51, 62, 67, 111, 109,
       112, 97, 114, 97, 116, 105, 118, 111, 32, 99, 111, 109, 32, 67, 111, 110, 99,
       111, 114, 114, 101, 110, 116, 101, 115, 60, 47, 104, 51, 62, 10, 32, 32, 32, 32,
       32, 32, 32, 32, 32, 32, 32, 32, 60, 112, 62, 69, 109, 32, 99, 111, 109, 112, 97,
       114, 97, 231, 227, 111, 32, 99, 111, 109, 32, 111, 117, 116, 114, 111, 115, 32,
       109, 111, 100, 101, 108, 111, 115, 32, 100, 111, 32, 109, 101, 114, 99, 97, 100,
       111, 44, 32, 111, 32>>
        \o product_name \o
    <<32, 115, 101, 32, 100, 101, 115, 116, 97, 99, 97, 46, 32, 80, 111, 114, 32, 101,
       120, 101, 109, 112, 108, 111, 44, 32, 10, 32, 32, 32, 32, 32, 32, 32, 32, 32, 32,
       32, 32, 111, 102, 101, 114, 101, 99, 101, 32, 109, 101, 108, 104, 111, 114, 32,
       99, 117, 115, 116, 111, 45, 98, 101, 110, 101, 102, 237, 99, 105, 111, 32, 110,
       97, 32, 99, 97, 116, 101, 103, 111, 114, 105, 97, 46, 32, 84, 97, 109, 98, 233,
       109, 32, 97, 112, 114, 101, 115, 101, 110, 116, 97, 32, 109, 101, 110, 111, 114,
       32, 99, 111, 110, 115, 117, 109, 111, 32, 101, 110, 101, 114, 103, 233, 116, 105,
       99, 111, 46, 32, 10, 32, 32, 32, 32, 32, 32, 32, 32, 32, 32, 32, 32, 70, 105,
       110, 97, 108, 109, 101, 110, 116, 101, 44, 32, 115, 117, 97, 32, 109, 97, 110,
       117, 116, 101, 110, 231, 227, 111, 32, 233, 32, 109, 97, 105, 115, 32, 115, 105,
       109, 112, 108, 101, 115, 32, 101, 32, 101, 99, 111, 110, 244, 109, 105, 99, 97,
       46, 60, 47, 112, 62, 10, 32, 32, 32, 32, 32, 32, 32, 32, 32, 32, 32, 32>>

AdditionalSections(product_name) ==
    << AdditionalSection1(product_name), AdditionalSection2(product_name),
       AdditionalSection3(product_name) >>

\* lines 314-322: sections are taken in their order until the words they
\* bring reach words_needed; k sections are taken already
RECURSIVE TakeSections(_, _, _)
TakeSections(sections, k, words_needed) ==
    IF k >= Len(sections) THEN << >>
    ELSE LET section == sections[k + 1]
             section_words == WordCount(StripTags(section))
         IN  IF words_needed - section_words <= 0 THEN section
             ELSE section \o TakeSections(sections, k + 1, words_needed - section_words)

\* The sections taken round after round until the words they bring reach
\* words_needed, the list not being the limit.
GenerateAdditionalContentUntilFull(product_name, words_needed) ==
    LET round == Join(AdditionalSections(product_name))
        round_words == WordCount(StripTags(round))
        rounds == (words_needed + round_words - 1) \div round_words
    IN  Join([i \in 1..rounds |-> round])

GenerateAdditionalContent(product_name, words_needed) ==
    TakeSections(AdditionalSections(product_name), 0, words_needed)

\* "</h2>"
H2Close == <<60, 47, 104, 50, 62>>

\* the last place where p stands in s, 0 when there is none
LastSub(s, p) ==
    LET found == {j \in 1..(Len(s) - Len(p) + 1) : SubSeq(s, j, j + Len(p) - 1) = p}
    IN  IF found = {} THEN 0 ELSE CHOOSE j \in found : \A k \in found : k <= j

\* _ensure_minimum_content_length (lines 254-282): the sections go after
\* the last '</h2>' of a body under 300 words; a body without '</h2>' is
\* returned as it came
EnsureMinimumContentLength(content, product_name) ==
    LET word_count == WordCount(StripTags(content))
        additional_content ==
            GenerateAdditionalContent(product_name, MinContentWords - word_count)
        cut == LastSub(content, H2Close)
    IN  IF word_count < MinContentWords /\ cut # 0
        THEN SubSeq(content, 1, cut + Len(H2Close) - 1) \o additional_content
                 \o SubSeq(content, cut + Len(H2Close), Len(content))
        ELSE content

\* lines 339-344: the four links random.choice draws from
InternalLinks ==
    << <<99, 111, 110, 102, 105, 114, 97, 32, 110, 111, 115, 115, 97, 32, 60, 97, 32, 104, 114,
         101, 102, 61, 34, 104, 116, 116, 112, 115, 58, 47, 47, 98, 108, 111, 103, 46, 99,
         114, 101, 97, 116, 105, 118, 101, 99, 111, 112, 105, 97, 115, 46, 99, 111, 109, 46,
         98, 114, 47, 99, 97, 116, 101, 103, 111, 114, 105, 97, 47, 105, 109, 112, 114, 101,
         115, 115, 111, 114, 97, 115, 47, 34, 32, 116, 97, 114, 103, 101, 116, 61, 34, 95, 98,
         108, 97, 110, 107, 34, 62, 115, 101, 108, 101, 231, 227, 111, 32, 99, 111, 109, 112,
         108, 101, 116, 97, 32, 100, 101, 32, 105, 109, 112, 114, 101, 115, 115, 111, 114, 97,
         115, 60, 47, 97, 62>>,
       <<118, 101, 106, 97, 32, 116, 97, 109, 98, 233, 109, 32, 110, 111, 115, 115, 111, 115,
         32, 60, 97, 32, 104, 114, 101, 102, 61, 34, 104, 116, 116, 112, 115, 58, 47, 47, 98,
         108, 111, 103, 46, 99, 114, 101, 97, 116, 105, 118, 101, 99, 111, 112, 105, 97, 115,
         46, 99, 111, 109, 46, 98, 114, 47, 99, 97, 116, 101, 103, 111, 114, 105, 97, 47, 109,
         117, 108, 116, 105, 102, 117, 110, 99, 105, 111, 110, 97, 105, 115, 47, 34, 32, 116,
         97, 114, 103, 101, 116, 61, 34, 95, 98, 108, 97, 110, 107, 34, 62, 101, 113, 117,
         105, 112, 97, 109, 101, 110, 116, 111, 115, 32, 109, 117, 108, 116, 105, 102, 117,
         110, 99, 105, 111, 110, 97, 105, 115, 60, 47, 97, 62>>,
       <<101, 110, 99, 111, 110, 116, 114, 101, 32, 60, 97, 32, 104, 114, 101, 102, 61, 34,
         104, 116, 116, 112, 115, 58, 47, 47, 98, 108, 111, 103, 46, 99, 114, 101, 97, 116,
         105, 118, 101, 99, 111, 112, 105, 97, 115, 46, 99, 111, 109, 46, 98, 114, 47, 99, 97,
         116, 101, 103, 111, 114, 105, 97, 47, 115, 117, 112, 114, 105, 109, 101, 110, 116,
         111, 115, 47, 34, 32, 116, 97, 114, 103, 101, 116, 61, 34, 95, 98, 108, 97, 110, 107,
         34, 62, 115, 117, 112, 114, 105, 109, 101, 110, 116, 111, 115, 32, 111, 114, 105,
         103, 105, 110, 97, 105, 115, 60, 47, 97, 62>>,
       <<60, 97, 32, 104, 114, 101, 102, 61, 34, 104, 116, 116, 112, 115, 58, 47, 47, 98, 108,
         111, 103, 46, 99, 114, 101, 97, 116, 105, 118, 101, 99, 111, 112, 105, 97, 115, 46,
         99, 111, 109, 46, 98, 114, 47, 99, 111, 110, 116, 97, 116, 111, 47, 34, 32, 116, 97,
         114, 103, 101, 116, 61, 34, 95, 98, 108, 97, 110, 107, 34, 62, 101, 110, 116, 114,
         101, 32, 101, 109, 32, 99, 111, 110, 116, 97, 116, 111, 32, 99, 111, 110, 111, 115,
         99, 111, 60, 47, 97, 62, 32, 112, 97, 114, 97, 32, 109, 97, 105, 115, 32, 105, 110,
         102, 111, 114, 109, 97, 231, 245, 101, 115>> >>

\* line 352: a paragraph of more than 15 words takes the link
LinkParaWords == 15

\* '. Para mais opções, ', '<p>Para mais opções, ', '.'
LinkLead == <<46, 32, 80, 97, 114, 97, 32, 109, 97, 105, 115, 32, 111, 112, 231, 245, 101, 115, 44, 32>>
LinkLeadPara == <<60, 112, 62, 80, 97, 114, 97, 32, 109, 97, 105, 115, 32, 111, 112, 231, 245, 101, 115, 44, 32>>

\* s.rstrip()
RStrip(s) ==
    LET keep == {i \in 1..Len(s) : ~IsSpace(s[i])}
    IN  IF keep = {} THEN << >>
        ELSE SubSeq(s, 1, CHOOSE i \in keep : \A j \in keep : j <= i)

\* _add_mandatory_internal_links (lines 324-361) with the link that
\* random.choice drew: the first <p> of more than 15 words takes it, a body
\* without any <p> takes a paragraph of its own, a body whose paragraphs are
\* all short takes nothing
AddMandatoryInternalLinks(content, link_to_add) ==
    LET paragraphs == ElementsFrom(content, POpen, PClose, TRUE, 1)
        long == {i \in 1..Len(paragraphs) :
                    WordCount(paragraphs[i].inner) > LinkParaWords}
        paragraph == paragraphs[MinOf(long)].inner
        enhanced_p == RStrip(paragraph) \o LinkLead \o link_to_add \o <<46>>
    IN  IF Contains(content, InternalDomain) THEN content
        ELSE IF paragraphs = << >>
        THEN content \o LinkLeadPara \o link_to_add \o <<46>> \o PClose
        ELSE IF long = {} THEN content
        ELSE ReplaceFirst(content, POpen \o paragraph \o PClose,
                          POpen \o enhanced_p \o PClose)

-----------------------------------------------------------------------------
(* ContentGenerator._ensure_external_links                                  *)

\* 'href="', '"', 'http://', 'https://', 'creativecopias.com'
HrefOpen == <<104, 114, 101, 102, 61, 34>>
Quote == <<34>>
SchemeHttp == <<104, 116, 116, 112, 58, 47, 47>>
SchemeHttps == <<104, 116, 116, 112, 115, 58, 47, 47>>
OwnDomain == <<99, 114, 101, 97, 116, 105, 118, 101, 99, 111, 112, 105, 97, 115, 46, 99, 111,
      109>>

\* re.findall(r'href="(https?://[^"]+)"', content): the link targets, a
\* target running from the scheme to the next quotation mark
HrefTargets(content) ==
    {SubSeq(content, i + Len(HrefOpen), FindSub(content, Quote, i + Len(HrefOpen)) - 1) :
        i \in {j \in 1..Len(content) :
                 /\ SubSeq(content, j, Min2(Len(content), j + Len(HrefOpen) - 1)) = HrefOpen
                 /\ LET rest == SubSeq(content, j + Len(HrefOpen), Len(content))
                        close == FindSub(content, Quote, j + Len(HrefOpen))
                    IN  \/ /\ StartsWith(rest, SchemeHttp)
                           /\ close > j + Len(HrefOpen) + Len(SchemeHttp)
                        \/ /\ StartsWith(rest, SchemeHttps)
                           /\ close > j + Len(HrefOpen) + Len(SchemeHttps)}}

\* lines 382-389: the brands in the order of the dictionary and their sites
BrandLinks ==
    << [brand |-> <<104, 112>>, url |-> <<104, 116, 116, 112, 115, 58, 47, 47, 119, 119, 119, 46, 104, 112, 46, 99, 111,
      109, 47, 98, 114, 45, 112, 116, 47>>],
       [brand |-> <<99, 97, 110, 111, 110>>, url |-> <<104, 116, 116, 112, 115, 58, 47, 47, 119, 119, 119, 46, 99, 97, 110, 111, 110, 46,
      99, 111, 109, 46, 98, 114, 47>>],
       [brand |-> <<101, 112, 115, 111, 110>>, url |-> <<104, 116, 116, 112, 115, 58, 47, 47, 101, 112, 115, 111, 110, 46, 99, 111, 109,
      46, 98, 114, 47>>],
       [brand |-> <<98, 114, 111, 116, 104, 101, 114>>, url |-> <<104, 116, 116, 112, 115, 58, 47, 47, 119, 119, 119, 46, 98, 114, 111, 116, 104,
      101, 114, 46, 99, 111, 109, 46, 98, 114, 47>>],
       [brand |-> <<115, 97, 109, 115, 117, 110, 103>>, url |-> <<104, 116, 116, 112, 115, 58, 47, 47, 119, 119, 119, 46, 115, 97, 109, 115, 117,
      110, 103, 46, 99, 111, 109, 47, 98, 114, 47>>],
       [brand |-> <<120, 101, 114, 111, 120>>, url |-> <<104, 116, 116, 112, 115, 58, 47, 47, 119, 119, 119, 46, 120, 101, 114, 111, 120,
      46, 99, 111, 109, 46, 98, 114, 47>>] >>

\* lines 392-396: the first brand the product name holds, 'hp' when none
ProductBrand(product_name) ==
    LET held == {i \in DOMAIN BrandLinks :
                    Contains(Lower(product_name), BrandLinks[i].brand)}
    IN  IF held = {} THEN 1 ELSE MinOf(held)

\* str.upper() of a text of a-z
Upper(s) == [i \in 1..Len(s) |-> UpperC(s[i])]

\* line 398
ExternalLink(product_name) ==
    LET b == BrandLinks[ProductBrand(product_name)]
    IN  <<60, 97, 32, 104, 114, 101, 102, 61, 34>> \o b.url \o <<34, 32, 116, 97, 114, 103, 101, 116, 61, 34, 95, 98, 108, 97, 110, 107, 34, 32,
      114, 101, 108, 61, 34, 110, 111, 102, 111, 108, 108, 111, 119, 34, 62, 115,
      105, 116, 101, 32, 111, 102, 105, 99, 105, 97, 108, 32, 100, 97, 32>>
            \o Upper(b.brand) \o <<60, 47, 97, 62>>

\* line 402: a paragraph of more than 10 words takes the link
ExternalParaWords == 10

\* _ensure_external_links (lines 363-416): the second paragraph, or the
\* first, takes the link when it has more than 10 words; otherwise a
\* paragraph of its own is appended
EnsureExternalLinks(content, product_name) ==
    LET has_external == \E link \in HrefTargets(content) : ~Contains(link, OwnDomain)
        external_link == ExternalLink(product_name)
        paragraphs == ElementsFrom(content, POpen, PClose, TRUE, 1)
        second_p == paragraphs[2].inner
        first_p == paragraphs[1].inner
    IN  IF has_external THEN content
        ELSE IF Len(paragraphs) >= 2 /\ WordCount(second_p) > ExternalParaWords
        THEN ReplaceFirst(content, POpen \o second_p \o PClose,
                 POpen \o RStrip(second_p)
                     \o <<32, 77, 97, 105, 115, 32, 100, 101, 116, 97, 108, 104, 101, 115, 32, 116, 233, 99,
      110, 105, 99, 111, 115, 32, 101, 115, 116, 227, 111, 32, 100, 105, 115, 112,
      111, 110, 237, 118, 101, 105, 115, 32, 110, 111, 32>>
                     \o external_link \o <<46>> \o PClose)
        ELSE IF Len(paragraphs) >= 1 /\ WordCount(first_p) > ExternalParaWords
        THEN ReplaceFirst(content, POpen \o first_p \o PClose,
                 POpen \o RStrip(first_p) \o <<32, 67, 111, 110, 115, 117, 108, 116, 101, 32, 116, 97, 109, 98, 233, 109, 32,
      111, 32>>
                     \o external_link \o <<32, 112, 97, 114, 97, 32, 105, 110, 102, 111, 114, 109, 97, 231, 245, 101, 115,
      32, 97, 100, 105, 99, 105, 111, 110, 97, 105, 115, 46>> \o PClose)
        ELSE content \o <<60, 112, 62, 67, 111, 110, 115, 117, 108, 116, 101, 32, 111, 32>> \o external_link
                 \o <<32, 112, 97, 114, 97, 32, 109, 97, 105, 115, 32, 105, 110, 102, 111, 114, 109, 97,
      231, 245, 101, 115, 32, 116, 233, 99, 110, 105, 99, 97, 115, 46, 60, 47, 112,
      62>>

\* CRITICO 2 and CRITICO 3 of _optimize_readability_yoast (lines 205-209):
\* the two link passes one after the other
InjectMandatoryLinks(content, product_name, link_to_add) ==
    EnsureExternalLinks(AddMandatoryInternalLinks(content, link_to_add), product_name)

-----------------------------------------------------------------------------
(* The sentence-length passes: ContentGenerator._optimize_sentence_length_  *)
(* yoast and SEOOptimizer._optimize_sentence_length_enhanced with           *)
(* _find_best_split_point                                                   *)

\* len(words) > 20
MaxSentenceWords == 20

\* re.split(r'[.!?]+', s), every piece stripped and the empty ones left
\* out: the maximal runs of characters other than . ! ?
SentencePieces(s) ==
    LET starts == SortedSeq({i \in 1..Len(s) :
                      s[i] \notin SentenceEnds /\ (i = 1 \/ s[i-1] \in SentenceEnds)})
        stop(i) == LET e == MinOf({j \in i..Len(s) : s[j] \in SentenceEnds})
                   IN  IF e = 0 THEN Len(s) ELSE e - 1
        pieces == [k \in 1..Len(starts) |-> Strip(SubSeq(s, starts[k], stop(starts[k])))]
    IN  SelectSeq(pieces, LAMBDA p : p # << >>)

\* content_generator.py line 646: e, mas, porém, contudo, entretanto,
\* todavia ('no entanto' is no single word)
YoastConnectors ==
    {<<101>>, <<109, 97, 115>>, <<112, 111, 114, 233, 109>>, <<99, 111, 110, 116, 117, 100, 111>>, <<101, 110, 116, 114, 101, 116, 97, 110, 116, 111>>, <<110, 111, 32, 101, 110, 116, 97, 110, 116, 111>>,
     <<116, 111, 100, 97, 118, 105, 97>>}

\* lines 655 and 668: what random.choice draws from
YoastSplitTransitions == << <<65, 108, 233, 109, 32, 100, 105, 115, 115, 111>>, <<68, 101, 115, 115, 97, 32, 102, 111, 114, 109, 97>>, <<84, 97, 109, 98, 233, 109>> >>
YoastCutTransitions == << <<65, 108, 233, 109, 32, 100, 105, 115, 115, 111>>, <<84, 97, 109, 98, 233, 109>>, <<65, 105, 110, 100, 97>> >>

\* lines 644-672: one sentence, pick being the place random.choice drew
YoastSentence(sentence, pick) ==
    LET words == SplitWs(sentence)
        n == Len(words)
        splits == {i \in 1..n : /\ Lower(words[i]) \in YoastConnectors
                                /\ i - 1 > 8 /\ i - 1 < n - 3}
        i == MinOf(splits)
    IN  IF n <= MaxSentenceWords THEN << sentence \o <<46>> >>
        ELSE IF splits # {}
        THEN << JoinSep(SubSeq(words, 1, i - 1), <<32>>) \o <<46>>,
                YoastSplitTransitions[pick] \o <<44, 32>>
                    \o Lower(JoinSep(SubSeq(words, i + 1, n), <<32>>)) \o <<46>> >>
        ELSE << JoinSep(SubSeq(words, 1, MaxSentenceWords), <<32>>) \o <<46>>,
                YoastCutTransitions[pick] \o <<44, 32>>
                    \o Lower(JoinSep(SubSeq(words, MaxSentenceWords + 1, n), <<32>>))
                    \o <<46>> >>

\* the picks random.choice makes for one body, one for each of the sentences
\* of a paragraph, the paragraphs taking the places in turn
PickOf(picks, p, j) == picks[((2 * (p - 1) + j - 1) % Len(picks)) + 1]

\* flattening a sequence of sequences of texts
Flatten(seqs) ==
    LET RECURSIVE flat(_)
        flat(k) == IF k > Len(seqs) THEN << >> ELSE seqs[k] \o flat(k + 1)
    IN  flat(1)

\* ContentGenerator._optimize_sentence_length_yoast (lines 618-675)
OptimizeSentenceLengthYoast(content, picks) ==
    LET paragraphs == SplitOn(content, 10)
        line(p) ==
            IF Strip(paragraphs[p]) = << >> THEN paragraphs[p]
            ELSE LET sentences == SentencePieces(paragraphs[p])
                 IN  JoinSep(Flatten([j \in 1..Len(sentences) |->
                                 YoastSentence(sentences[j], PickOf(picks, p, j))]),
                             <<32>>)
    IN  IF content = << >> THEN content
        ELSE JoinSep([p \in 1..Len(paragraphs) |-> line(p)], <<10>>)

\* seo_optimizer.py lines 474-475: e, mas, porém, contudo, entretanto, que,
\* porque, quando, onde, como
EnhancedConnectors ==
    {<<101>>, <<109, 97, 115>>, <<112, 111, 114, 233, 109>>, <<99, 111, 110, 116, 117, 100, 111>>, <<101, 110, 116, 114, 101, 116, 97, 110, 116, 111>>, <<110, 111, 32, 101, 110, 116, 97, 110, 116, 111>>, <<113, 117, 101>>,
     <<112, 111, 114, 113, 117, 101>>, <<113, 117, 97, 110, 100, 111>>, <<111, 110, 100, 101>>, <<99, 111, 109, 111>>, <<112, 97, 114, 97, 32, 113, 117, 101>>}

\* lines 478 and 483: range(8, min(len(words) - 3, 20)), as places counted from 1
SplitRange(n) == 9..Min2(n - 3, MaxSentenceWords)

\* _find_best_split_point (lines 471-487): the words before the first
\* connector of the range, or up to the first word of the range that ends
\* with a comma; 0 for None
FindBestSplitPoint(words) ==
    LET range == SplitRange(Len(words))
        connectors == {i \in range : Lower(words[i]) \in EnhancedConnectors}
        commas == {i \in range : words[i][Len(words[i])] = 44}
    IN  IF connectors # {} THEN MinOf(connectors) - 1
        ELSE IF commas # {} THEN MinOf(commas)
        ELSE 0

\* line 451: Além disso, Dessa forma, Também, Ainda
EnhancedTransitions ==
    << <<65, 108, 233, 109, 32, 100, 105, 115, 115, 111>>, <<68, 101, 115, 115, 97, 32, 102, 111, 114, 109, 97>>, <<84, 97, 109, 98, 233, 109>>, <<65, 105, 110, 100, 97>> >>

\* str.capitalize()
Capitalize(s) ==
    [i \in 1..Len(s) |-> IF i = 1 THEN UpperC(s[i]) ELSE LowerC(s[i])]

\* re.split(r'([.!?])', s): the texts between the marks, in order, each but
\* the last followed by its mark
MarkedPieces(s) ==
    LET cuts == SortedSeq({i \in 1..Len(s) : s[i] \in SentenceEnds})
        from(k) == IF k = 1 THEN 1 ELSE cuts[k-1] + 1
    IN  [k \in 1..Len(cuts) |->
            [text |-> SubSeq(s, from(k), cuts[k] - 1), mark |-> << s[cuts[k]] >>]]

\* lines 431-465: the sentences of one paragraph in turn, k of them done,
\* optimized_sentences holding the pieces so far; the text after the last
\* mark is not taken
RECURSIVE EnhancedLoop(_, _, _)
EnhancedLoop(pieces, k, optimized_sentences) ==
    IF k >= Len(pieces) THEN optimized_sentences
    ELSE LET sentence == Strip(pieces[k + 1].text)
             punctuation == pieces[k + 1].mark
             words == SplitWs(sentence)
             split_point == FindBestSplitPoint(words)
             mid == Len(words) \div 2
             transition ==
                 EnhancedTransitions[(Len(optimized_sentences)
                                         % Len(EnhancedTransitions)) + 1]
             added ==
                 IF sentence = << >> THEN << >>
                 ELSE IF Len(words) <= MaxSentenceWords THEN << sentence, punctuation >>
                 ELSE IF split_point # 0
                 THEN << JoinSep(SubSeq(words, 1, split_point), <<32>>), <<46>>,
                         <<32>> \o transition \o <<44, 32>>
                             \o Lower(JoinSep(SubSeq(words, split_point + 1, Len(words)),
                                              <<32>>)),
                         punctuation >>
                 ELSE << JoinSep(SubSeq(words, 1, mid), <<32>>), <<46>>,
                         <<32>> \o Capitalize(JoinSep(SubSeq(words, mid + 1, Len(words)),
                                                      <<32>>)),
                         punctuation >>
         IN  EnhancedLoop(pieces, k + 1, optimized_sentences \o added)

\* SEOOptimizer._optimize_sentence_length_enhanced (lines 413-470): a line
\* that is blank or holds a '<' is left as it is
OptimizeSentenceLengthEnhanced(content) ==
    LET paragraphs == SplitOn(content, 10)
        line(p) ==
            IF Strip(paragraphs[p]) = << >> \/ Contains(paragraphs[p], <<60>>)
            THEN paragraphs[p]
            ELSE Join(EnhancedLoop(MarkedPieces(paragraphs[p]), 0, << >>))
    IN  IF content = << >> THEN content
        ELSE JoinSep([p \in 1..Len(paragraphs) |-> line(p)], <<10>>)

-----------------------------------------------------------------------------
(* The transition-word passes: ContentGenerator._add_transition_words_yoast *)
(* and SEOOptimizer._add_transition_words_enhanced                          *)

\* ContentGenerator.transition_words (content_generator.py lines 74-81)
GeneratorTransitionWords ==
    {<<97, 108, 233, 109, 32, 100, 105, 115, 115, 111>>, <<112, 111, 114, 116, 97, 110, 116, 111>>, <<112, 111, 114, 32, 102, 105, 109>>, <<111, 117, 32, 115, 101, 106, 97>>, <<110, 111, 32, 101, 110, 116, 97, 110, 116, 111>>,
     <<97, 115, 115, 105, 109, 32, 115, 101, 110, 100, 111>>, <<112, 111, 114, 32, 111, 117, 116, 114, 111, 32, 108, 97, 100, 111>>, <<101, 109, 32, 112, 114, 105, 109, 101, 105, 114, 111, 32, 108, 117, 103, 97, 114>>, <<102, 105, 110, 97, 108, 109, 101, 110, 116, 101>>,
     <<99, 111, 110, 115, 101, 113, 117, 101, 110, 116, 101, 109, 101, 110, 116, 101>>, <<112, 111, 114, 32, 101, 120, 101, 109, 112, 108, 111>>, <<100, 101, 115, 115, 97, 32, 102, 111, 114, 109, 97>>, <<99, 111, 110, 116, 117, 100, 111>>,
     <<115, 111, 98, 114, 101, 116, 117, 100, 111>>, <<112, 111, 114, 32, 105, 115, 115, 111>>, <<101, 109, 32, 115, 117, 109, 97>>, <<97, 105, 110, 100, 97, 32, 97, 115, 115, 105, 109>>, <<108, 111, 103, 111>>,
     <<112, 114, 105, 110, 99, 105, 112, 97, 108, 109, 101, 110, 116, 101>>, <<101, 110, 116, 227, 111>>, <<112, 97, 114, 97, 32, 105, 115, 115, 111>>, <<101, 110, 116, 114, 101, 116, 97, 110, 116, 111>>, <<97, 105, 110, 100, 97>>,
     <<100, 101, 32, 102, 111, 114, 109, 97, 32, 103, 101, 114, 97, 108>>, <<101, 109, 32, 99, 111, 109, 112, 97, 114, 97, 231, 227, 111>>, <<101, 109, 32, 114, 101, 115, 117, 109, 111>>, <<97, 100, 105, 99, 105, 111, 110, 97, 108, 109, 101, 110, 116, 101>>}

\* SEOOptimizer.transition_words (seo_optimizer.py lines 25-32)
OptimizerTransitionWords ==
    {<<97, 108, 233, 109, 32, 100, 105, 115, 115, 111>>, <<112, 111, 114, 116, 97, 110, 116, 111>>, <<112, 111, 114, 32, 102, 105, 109>>, <<111, 117, 32, 115, 101, 106, 97>>, <<110, 111, 32, 101, 110, 116, 97, 110, 116, 111>>,
     <<97, 115, 115, 105, 109, 32, 115, 101, 110, 100, 111>>, <<112, 111, 114, 32, 111, 117, 116, 114, 111, 32, 108, 97, 100, 111>>, <<101, 109, 32, 112, 114, 105, 109, 101, 105, 114, 111, 32, 108, 117, 103, 97, 114>>, <<102, 105, 110, 97, 108, 109, 101, 110, 116, 101>>,
     <<99, 111, 110, 115, 101, 113, 117, 101, 110, 116, 101, 109, 101, 110, 116, 101>>, <<112, 111, 114, 32, 101, 120, 101, 109, 112, 108, 111>>, <<100, 101, 115, 115, 97, 32, 102, 111, 114, 109, 97>>, <<99, 111, 110, 116, 117, 100, 111>>,
     <<115, 111, 98, 114, 101, 116, 117, 100, 111>>, <<112, 111, 114, 32, 105, 115, 115, 111>>, <<101, 109, 32, 115, 117, 109, 97>>, <<97, 105, 110, 100, 97, 32, 97, 115, 115, 105, 109>>, <<108, 111, 103, 111>>,
     <<112, 114, 105, 110, 99, 105, 112, 97, 108, 109, 101, 110, 116, 101>>, <<101, 110, 116, 227, 111>>, <<112, 97, 114, 97, 32, 105, 115, 115, 111>>, <<101, 110, 116, 114, 101, 116, 97, 110, 116, 111>>, <<97, 105, 110, 100, 97>>,
     <<109, 97, 115>>, <<112, 111, 114, 233, 109>>, <<116, 111, 100, 97, 118, 105, 97>>, <<97, 115, 115, 105, 109>>, <<116, 97, 109, 98, 233, 109>>}

\* any(trans in sentence.lower() for trans in self.transition_words)
CarriesTransition(sentence, transition_words) ==
    \E trans \in transition_words : Contains(Lower(sentence), trans)

\* len(sentences) * 0.3
TransitionSharePercent == 30

\* max(1, int(len(sentences) * 0.3)), and no more than the sentences after
\* the first
TransitionCount(n) ==
    Min2(Max2(1, (n * TransitionSharePercent) \div 100), n - 1)

\* lines 765 and 531, 767 and 533, 769, 535
SecondTransitions == << <<65, 108, 233, 109, 32, 100, 105, 115, 115, 111>>, <<84, 97, 109, 98, 233, 109>>, <<65, 100, 105, 99, 105, 111, 110, 97, 108, 109, 101, 110, 116, 101>> >>
LastTransitions == << <<80, 111, 114, 32, 102, 105, 109>>, <<70, 105, 110, 97, 108, 109, 101, 110, 116, 101>>, <<69, 109, 32, 115, 117, 109, 97>> >>
MiddleTransitionsYoast ==
    << <<68, 101, 115, 115, 97, 32, 102, 111, 114, 109, 97>>, <<80, 111, 114, 116, 97, 110, 116, 111>>, <<67, 111, 110, 115, 101, 113, 117, 101, 110, 116, 101, 109, 101, 110, 116, 101>>, <<65, 105, 110, 100, 97, 32, 97, 115, 115, 105, 109>> >>
MiddleTransitionsEnhanced == << <<68, 101, 115, 115, 97, 32, 102, 111, 114, 109, 97>>, <<80, 111, 114, 116, 97, 110, 116, 111>>, <<67, 111, 110, 115, 101, 113, 117, 101, 110, 116, 101, 109, 101, 110, 116, 101>> >>

\* what random.sample and random.choice can draw for a paragraph of n
\* sentences: the places to modify, counted from 0, and for each the place
\* of the transition in its list
ParagraphDraws(n) ==
    IF n <= 1 THEN {[sample |-> {}, picks |-> << >>]}
    ELSE UNION {{[sample |-> sample, picks |-> picks] :
                    picks \in [sample -> DOMAIN MiddleTransitionsYoast]} :
                sample \in {s \in SUBSET (1..(n - 1)) :
                               Cardinality(s) = TransitionCount(n)}}

\* the draws of one call, one for each line of the body
RECURSIVE BodyDraws(_)
BodyDraws(counts) ==
    IF counts = << >> THEN {<< >>}
    ELSE {<<draw>> \o rest : draw \in ParagraphDraws(Head(counts)),
                             rest \in BodyDraws(Tail(counts))}

\* the transition for the sentence at place i of n (lines 764-769 and
\* 530-535)
PlacedTransition(i, n, middle, pick) ==
    LET list == IF i = 1 THEN SecondTransitions
                ELSE IF i = n - 1 THEN LastTransitions
                ELSE middle
    IN  list[((pick - 1) % Len(list)) + 1]

\* lines 756-772 and 524-538: the sentence at place i after the pass
WithTransition(sentence, i, n, draw, middle, transition_words) ==
    IF i \in draw.sample /\ ~CarriesTransition(sentence, transition_words)
    THEN PlacedTransition(i, n, middle, draw.picks[i]) \o <<44, 32>> \o Lower(sentence)
    ELSE sentence

\* the lines a transition pass works on: not blank and without a '<'
IsPlainLine(paragraph) ==
    Strip(paragraph) # << >> /\ ~Contains(paragraph, <<60>>)

\* the sentences the yoast pass sees in each line of a body
YoastSentenceCounts(content) ==
    LET paragraphs == SplitOn(content, 10)
    IN  [p \in 1..Len(paragraphs) |->
            IF IsPlainLine(paragraphs[p]) THEN Len(SentencePieces(paragraphs[p]))
            ELSE 0]

\* ContentGenerator._add_transition_words_yoast (lines 730-776)
AddTransitionWordsYoast(content, draws) ==
    LET paragraphs == SplitOn(content, 10)
        line(p) ==
            LET sentences == SentencePieces(paragraphs[p])
                n == Len(sentences)
            IN  IF ~IsPlainLine(paragraphs[p]) \/ n <= 1 THEN paragraphs[p]
                ELSE JoinSep([k \in 1..n |->
                                 WithTransition(sentences[k], k - 1, n, draws[p],
                                     MiddleTransitionsYoast, GeneratorTransitionWords)],
                             <<46, 32>>) \o <<46>>
    IN  IF content = << >> THEN content
        ELSE JoinSep([p \in 1..Len(paragraphs) |-> line(p)], <<10>>)

\* lines 501-509: the sentences with their marks, the blank ones left out
SentencePairs(paragraph) ==
    LET pieces == MarkedPieces(paragraph)
    IN  SelectSeq([k \in 1..Len(pieces) |->
                      [text |-> Strip(pieces[k].text), mark |-> pieces[k].mark]],
                  LAMBDA pair : pair.text # << >>)

\* the sentences the enhanced pass sees in each line of a body
EnhancedSentenceCounts(content) ==
    LET paragraphs == SplitOn(content, 10)
    IN  [p \in 1..Len(paragraphs) |->
            IF IsPlainLine(paragraphs[p]) THEN Len(SentencePairs(paragraphs[p]))
            ELSE 0]

\* SEOOptimizer._add_transition_words_enhanced (lines 489-543)
AddTransitionWordsEnhanced(content, draws) ==
    LET paragraphs == SplitOn(content, 10)
        line(p) ==
            LET sentence_pairs == SentencePairs(paragraphs[p])
                n == Len(sentence_pairs)
            IN  IF ~IsPlainLine(paragraphs[p]) \/ n <= 1 THEN paragraphs[p]
                ELSE JoinSep([k \in 1..n |->
                                 WithTransition(sentence_pairs[k].text, k - 1, n, draws[p],
                                     MiddleTransitionsEnhanced, OptimizerTransitionWords)
                                 \o sentence_pairs[k].mark],
                             <<32>>)
    IN  IF content = << >> THEN content
        ELSE JoinSep([p \in 1..Len(paragraphs) |-> line(p)], <<10>>)

-----------------------------------------------------------------------------
(* The list pass of the generator: ContentGenerator._optimize_lists_yoast   *)

\* "<ul>", "<li>" and "   <li>"
UlTag == <<60, 117, 108, 62>>
LiTag == <<60, 108, 105, 62>>
ItemHeadYoast == <<32, 32, 32, 60, 108, 105, 62>>

\* re.findall(r'<li>(.*?)</li>', s): the items of one line each, from
\* place i on
RECURSIVE LineItemsFrom(_, _)
LineItemsFrom(s, i) ==
    LET closeAt(j) == FindSub(s, LiClose, j + Len(LiTag))
        matches(j) == /\ SubSeq(s, j, j + Len(LiTag) - 1) = LiTag
                      /\ closeAt(j) # 0
                      /\ \A m \in (j + Len(LiTag))..(closeAt(j) - 1) : s[m] # 10
        a == MinOf({j \in i..(Len(s) - Len(LiTag) + 1) : matches(j)})
    IN  IF a = 0 THEN << >>
        ELSE << SubSeq(s, a + Len(LiTag), closeAt(a) - 1) >>
             \o LineItemsFrom(s, closeAt(a) + Len(LiClose))

\* lines 792-815: the items a short list is filled with
AdditionalImpressora ==
    << <<67, 111, 110, 101, 99, 116, 105, 118, 105, 100, 97, 100, 101, 32, 85, 83, 66, 32,
      101, 32, 69, 116, 104, 101, 114, 110, 101, 116, 32, 105, 110, 116, 101, 103,
      114, 97, 100, 97>>,
       <<66, 97, 105, 120, 111, 32, 99, 111, 110, 115, 117, 109, 111, 32, 100, 101, 32,
      101, 110, 101, 114, 103, 105, 97, 32, 101, 109, 32, 109, 111, 100, 111, 32,
      115, 116, 97, 110, 100, 98, 121>>,
       <<67, 111, 109, 112, 97, 116, 105, 98, 105, 108, 105, 100, 97, 100, 101, 32, 99,
      111, 109, 32, 115, 105, 115, 116, 101, 109, 97, 115, 32, 87, 105, 110, 100,
      111, 119, 115, 32, 101, 32, 77, 97, 99>> >>
AdditionalMultifuncional ==
    << <<83, 99, 97, 110, 110, 101, 114, 32, 99, 111, 109, 32, 114, 101, 115, 111, 108,
      117, 231, 227, 111, 32, 243, 112, 116, 105, 99, 97, 32, 115, 117, 112, 101,
      114, 105, 111, 114>>,
       <<67, 111, 112, 105, 97, 100, 111, 114, 97, 32, 99, 111, 109, 32, 122, 111, 111,
      109, 32, 97, 117, 116, 111, 109, 225, 116, 105, 99, 111>>,
       <<70, 97, 120, 32, 99, 111, 109, 32, 109, 101, 109, 243, 114, 105, 97, 32, 100, 101,
      32, 100, 111, 99, 117, 109, 101, 110, 116, 111, 115>> >>
AdditionalToner ==
    << <<65, 108, 116, 111, 32, 114, 101, 110, 100, 105, 109, 101, 110, 116, 111, 32, 100,
      101, 32, 112, 225, 103, 105, 110, 97, 115, 32, 112, 111, 114, 32, 99, 97, 114,
      116, 117, 99, 104, 111>>,
       <<81, 117, 97, 108, 105, 100, 97, 100, 101, 32, 100, 101, 32, 105, 109, 112, 114,
      101, 115, 115, 227, 111, 32, 112, 114, 111, 102, 105, 115, 115, 105, 111, 110,
      97, 108>>,
       <<73, 110, 115, 116, 97, 108, 97, 231, 227, 111, 32, 114, 225, 112, 105, 100, 97,
      32, 101, 32, 115, 101, 109, 32, 99, 111, 109, 112, 108, 105, 99, 97, 231, 245,
      101, 115>> >>
AdditionalDefault ==
    << <<81, 117, 97, 108, 105, 100, 97, 100, 101, 32, 115, 117, 112, 101, 114, 105, 111,
      114, 32, 99, 111, 109, 112, 114, 111, 118, 97, 100, 97>>,
       <<69, 120, 99, 101, 108, 101, 110, 116, 101, 32, 99, 117, 115, 116, 111, 45, 98,
      101, 110, 101, 102, 237, 99, 105, 111>>,
       <<71, 97, 114, 97, 110, 116, 105, 97, 32, 100, 101, 32, 115, 97, 116, 105, 115, 102,
      97, 231, 227, 111>> >>

AdditionalItems(product_name) ==
    LET name == Lower(product_name)
    IN  IF Contains(name, WordImpressora) THEN AdditionalImpressora
        ELSE IF Contains(name, WordMultifuncional) THEN AdditionalMultifuncional
        ELSE IF Contains(name, WordToner) THEN AdditionalToner
        ELSE AdditionalDefault

\* lines 823-827: an item of more than 15 words keeps its first 15
TruncateItem(item) ==
    IF WordCount(item) > MaxItemWords
    THEN JoinSep(Prefix(SplitWs(item), MaxItemWords), <<32>>) \o Ellipsis
    ELSE item

\* improve_list (lines 786-835): the list built from the inside of a <ul>
ImproveListYoast(list_content, product_name) ==
    LET items == LineItemsFrom(list_content, 1)
        filled == IF Len(items) < MinListItems
                  THEN items \o Prefix(AdditionalItems(product_name),
                                       MinListItems - Len(items))
                  ELSE items
    IN  ListHead
            \o Join([k \in 1..Len(filled) |->
                        ItemHeadYoast \o TruncateItem(filled[k]) \o ItemTail])
            \o ListTail

\* re.sub over the lists found: what stands between them is kept
RECURSIVE RebuildListsYoast(_, _, _, _, _)
RebuildListsYoast(s, lists, product_name, k, i) ==
    IF k > Len(lists) THEN SubSeq(s, i, Len(s))
    ELSE SubSeq(s, i, lists[k].from - 1) \o ImproveListYoast(lists[k].inner, product_name)
            \o RebuildListsYoast(s, lists, product_name, k + 1, lists[k].to + 1)

\* ContentGenerator._optimize_lists_yoast (lines 778-839)
OptimizeListsYoast(content, product_name) ==
    IF ~Truthy(content) THEN content
    ELSE RebuildListsYoast(content, ElementsFrom(content, UlTag, UlClose, TRUE, 1),
                           product_name, 1, 1)

-----------------------------------------------------------------------------
(* The patterns of the re module that _clean_urls_in_content uses: runs of  *)
(* literals and of character classes with greedy or lazy repetition,        *)
(* matched with backtracking under re.IGNORECASE, and re.sub with group     *)
(* references                                                               *)

\* a literal (given in lower case) and a repeated character class; most is
\* -1 for a repetition without an upper limit
Lit(text) ==
    [kind |-> "lit", text |-> text, chars |-> {}, min |-> 0, most |-> 0, lazy |-> FALSE]
Repeated(chars, min, most, lazy) ==
    [kind |-> "rep", text |-> << >>, chars |-> chars, min |-> min, most |-> most,
     lazy |-> lazy]

NoMatch == [ok |-> FALSE, ends |-> << >>]

\* how many characters of s from place i on are in chars, up to most
RunLength(s, i, chars, most) ==
    LET stop == MinOf({j \in i..Len(s) : s[j] \notin chars})
        run == IF stop = 0 THEN Len(s) - i + 1 ELSE stop - i
    IN  IF most >= 0 THEN Min2(run, most) ELSE run

\* the atoms from the k-th on matched at place i of s: the place each atom
\* ends at. A repetition tries its counts in turn, the longest first or,
\* when lazy, the shortest first, and keeps the first that lets the rest
\* match.
RECURSIVE MatchFrom(_, _, _, _)
RECURSIVE MatchCounts(_, _, _, _, _, _)
MatchFrom(atoms, s, k, i) ==
    IF k > Len(atoms) THEN [ok |-> TRUE, ends |-> << >>]
    ELSE IF atoms[k].kind = "lit"
    THEN LET width == Len(atoms[k].text)
         IN  IF /\ i + width - 1 <= Len(s)
                /\ Lower(SubSeq(s, i, i + width - 1)) = atoms[k].text
             THEN CHOOSE out \in
                      {[ok |-> rest.ok, ends |-> <<i + width - 1>> \o rest.ends] :
                          rest \in {MatchFrom(atoms, s, k + 1, i + width)}} : TRUE
             ELSE NoMatch
    ELSE CHOOSE out \in
             {IF longest < atoms[k].min THEN NoMatch
              ELSE MatchCounts(atoms, s, k, i,
                               IF atoms[k].lazy THEN atoms[k].min ELSE longest, longest) :
                 longest \in {RunLength(s, i, atoms[k].chars, atoms[k].most)}} : TRUE

MatchCounts(atoms, s, k, i, count, longest) ==
    IF count < atoms[k].min \/ count > longest THEN NoMatch
    ELSE CHOOSE out \in
             {IF rest.ok THEN [ok |-> TRUE, ends |-> <<i + count - 1>> \o rest.ends]
              ELSE MatchCounts(atoms, s, k, i,
                               IF atoms[k].lazy THEN count + 1 ELSE count - 1, longest) :
                 rest \in {MatchFrom(atoms, s, k + 1, i + count)}} : TRUE

\* the text of a group of a match that starts at place j: the atoms
\* span[1]..span[2]
GroupText(s, j, ends, span) ==
    SubSeq(s, IF span[1] = 1 THEN j ELSE ends[span[1] - 1] + 1, ends[span[2]])

\* the replacement of a match: its parts are texts and group references
Expand(s, j, ends, groups, repl) ==
    Join([n \in 1..Len(repl) |->
             IF repl[n].group = 0 THEN repl[n].text
             ELSE GroupText(s, j, ends, groups[repl[n].group])])

Text(text) == [group |-> 0, text |-> text]
Group(n) == [group |-> n, text |-> << >>]

\* re.sub(pattern, repl, s, flags=re.IGNORECASE) from place i on: the
\* matches are taken from left to right and do not overlap
RECURSIVE SubFrom(_, _, _)
SubFrom(fix, s, i) ==
    LET first == Lower(fix.atoms[1].text)
        width == Len(first)
        starts == {j \in i..(Len(s) - width + 1) :
                      /\ Lower(SubSeq(s, j, j + width - 1)) = first
                      /\ MatchFrom(fix.atoms, s, 1, j).ok}
        j == MinOf(starts)
    IN  IF j = 0 THEN SubSeq(s, i, Len(s))
        ELSE CHOOSE out \in
                 {SubSeq(s, i, j - 1) \o Expand(s, j, m.ends, fix.groups, fix.repl)
                      \o SubFrom(fix, s, m.ends[Len(m.ends)] + 1) :
                     m \in {MatchFrom(fix.atoms, s, 1, j)}} : TRUE

-----------------------------------------------------------------------------
(* ContentGenerator._clean_urls_in_content                                  *)

\* \s, [^"\s], [^"\s/], [^"], [a-zA-Z0-9\-], [a-zA-Z]
UrlChars == Latin1 \ (SpaceChars \cup {34})
HostChars == UrlChars \ {47}
NotQuoteChars == Latin1 \ {34}
LabelChars == (65..90) \cup (97..122) \cup (48..57) \cup {45}
LetterChars == (65..90) \cup (97..122)

\* \s+, \s*, \.
Spaces1 == Repeated(SpaceChars, 1, -1, FALSE)
Spaces0 == Repeated(SpaceChars, 0, -1, FALSE)
Dot == Lit(<<46>>)

\* https?://
SchemeAtoms == << Lit(<<104, 116, 116, 112>>), Repeated({83, 115}, 0, 1, FALSE), Lit(<<58, 47, 47>>) >>

\* a pattern that is one literal, replaced by a text
LiteralFix(text, repl) ==
    [atoms |-> << Lit(text) >>, groups |-> << >>, repl |-> << Text(repl) >>]

\* a name whose parts may have whitespace around the dots between them
\* (part\s*\.\s*part...), replaced by the name
RECURSIVE SpacedAtoms(_)
SpacedAtoms(parts) ==
    IF Len(parts) = 1 THEN << Lit(parts[1]) >>
    ELSE << Lit(parts[1]), Spaces0, Dot, Spaces0 >> \o SpacedAtoms(Tail(parts))

SpacedFix(parts) ==
    [atoms |-> SpacedAtoms(parts), groups |-> << >>,
     repl |-> << Text(JoinSep(parts, <<46>>)) >>]

\* the names of lines 1372-1378 and 1389-1394
PartBlog == <<98, 108, 111, 103>>
PartCreative == <<99, 114, 101, 97, 116, 105, 118, 101, 99, 111, 112, 105, 97, 115>>
PartCom == <<99, 111, 109>>
PartBr == <<98, 114>>
PartWww == <<119, 119, 119>>
BrandParts == << <<104, 112>>, <<99, 97, 110, 111, 110>>, <<98, 114, 111, 116, 104, 101, 114>>, <<101, 112, 115, 111, 110>>, <<115, 97, 109, 115, 117, 110, 103>> >>

\* the name with '. ' between its parts
DotSpaced(parts) == JoinSep(parts, <<46, 32>>)

\* lines 1370-1395: url_fixes
UrlFixes ==
    << LiteralFix(DotSpaced(<<PartBlog, PartCreative, PartCom, PartBr>>),
                  JoinSep(<<PartBlog, PartCreative, PartCom, PartBr>>, <<46>>)),
       LiteralFix(DotSpaced(<<PartCreative, PartCom, PartBr>>),
                  JoinSep(<<PartCreative, PartCom, PartBr>>, <<46>>)) >>
    \o [b \in 1..Len(BrandParts) |->
           LiteralFix(DotSpaced(<<PartWww, BrandParts[b], PartCom>>),
                      JoinSep(<<PartWww, BrandParts[b], PartCom>>, <<46>>))]
    \o << \* (https?://[^"\s]*)\.\s+([^"\s/]*)\.\s+([^"\s/]*) -> \1.\2.\3
          [atoms |-> SchemeAtoms \o << Repeated(UrlChars, 0, -1, FALSE), Dot, Spaces1,
                                       Repeated(HostChars, 0, -1, FALSE), Dot, Spaces1,
                                       Repeated(HostChars, 0, -1, FALSE) >>,
           groups |-> << <<1, 4>>, <<7, 7>>, <<10, 10>> >>,
           repl |-> << Group(1), Text(<<46>>), Group(2), Text(<<46>>), Group(3) >>],
          \* (https?://[^"\s]*)\.\s+([^"\s/]*) -> \1.\2
          [atoms |-> SchemeAtoms \o << Repeated(UrlChars, 0, -1, FALSE), Dot, Spaces1,
                                       Repeated(HostChars, 0, -1, FALSE) >>,
           groups |-> << <<1, 4>>, <<7, 7>> >>,
           repl |-> << Group(1), Text(<<46>>), Group(2) >>],
          \* (https?://[^"]*?)\s+([a-zA-Z0-9\-]+)\s+\.\s+([a-zA-Z0-9\-]+)\s+\.\s+
          \* ([a-zA-Z]{2,}) -> \1\2.\3.\4
          [atoms |-> SchemeAtoms \o << Repeated(NotQuoteChars, 0, -1, TRUE), Spaces1,
                                       Repeated(LabelChars, 1, -1, FALSE), Spaces1, Dot, Spaces1,
                                       Repeated(LabelChars, 1, -1, FALSE), Spaces1, Dot, Spaces1,
                                       Repeated(LetterChars, 2, -1, FALSE) >>,
           groups |-> << <<1, 4>>, <<6, 6>>, <<10, 10>>, <<14, 14>> >>,
           repl |-> << Group(1), Group(2), Text(<<46>>), Group(3), Text(<<46>>),
                       Group(4) >>],
          \* (https?://[^"]*?)\s+([a-zA-Z0-9\-]+)\s+\.\s+([a-zA-Z]{2,}) -> \1\2.\3
          [atoms |-> SchemeAtoms \o << Repeated(NotQuoteChars, 0, -1, TRUE), Spaces1,
                                       Repeated(LabelChars, 1, -1, FALSE), Spaces1, Dot, Spaces1,
                                       Repeated(LetterChars, 2, -1, FALSE) >>,
           groups |-> << <<1, 4>>, <<6, 6>>, <<10, 10>> >>,
           repl |-> << Group(1), Group(2), Text(<<46>>), Group(3) >>],
          SpacedFix(<<PartBlog, PartCreative, PartCom, PartBr>>),
          SpacedFix(<<PartCreative, PartCom, PartBr>>) >>
    \o [b \in 1..4 |-> SpacedFix(<<PartWww, BrandParts[b], PartCom>>)]

\* lines 1397-1401: the fixes are applied one after the other
RECURSIVE ApplyUrlFixes(_, _)
ApplyUrlFixes(content, k) ==
    IF k > Len(UrlFixes) THEN content
    ELSE CHOOSE out \in {ApplyUrlFixes(fixed, k + 1) :
                            fixed \in {SubFrom(UrlFixes[k], content, 1)}} : TRUE

\* lines 1405-1412: href="([^"]*)" with the whitespace of the group removed
RECURSIVE FixUrlSpaces(_, _)
FixUrlSpaces(s, i) ==
    LET starts == {j \in i..(Len(s) - Len(HrefOpen) + 1) :
                      /\ SubSeq(s, j, j + Len(HrefOpen) - 1) = HrefOpen
                      /\ FindSub(s, Quote, j + Len(HrefOpen)) # 0}
        j == MinOf(starts)
        close == FindSub(s, Quote, j + Len(HrefOpen))
    IN  IF j = 0 THEN SubSeq(s, i, Len(s))
        ELSE SubSeq(s, i, j - 1) \o HrefOpen
                 \o SelectSeq(SubSeq(s, j + Len(HrefOpen), close - 1),
                              LAMBDA c : ~IsSpace(c))
                 \o Quote \o FixUrlSpaces(s, close + 1)

\* ContentGenerator._clean_urls_in_content (lines 1356-1414)
CleanUrlsInContent(content) ==
    IF ~Truthy(content) THEN content
    ELSE CHOOSE out \in {FixUrlSpaces(fixed, 1) :
                            fixed \in {ApplyUrlFixes(content, 1)}} : TRUE

-----------------------------------------------------------------------------
(* The smaller passes of the two pipelines: capitals, articles, paragraph   *)
(* length, active voice and the keyword of the introduction                 *)

\* \b at the two ends of a text found at place j of s
WordBounded(s, j, width) ==
    /\ j = 1 \/ ~IsWordC(s[j - 1])
    /\ j + width - 1 = Len(s) \/ ~IsWordC(s[j + width])

\* (?<!^)(?<!\. )(?<!\n): not at the start of s, not after '. ' and not
\* after a line feed
NotSentenceStart(s, j) ==
    /\ j # 1
    /\ ~(j > 2 /\ s[j - 2] = 46 /\ s[j - 1] = 32)
    /\ s[j - 1] # 10

\* the places where old stands in s
Occurrences(s, old) ==
    {j \in 1..(Len(s) - Len(old) + 1) : SubSeq(s, j, j + Len(old) - 1) = old}

\* content_generator.py lines 683-697
CapitalPatterns ==
    << <<<<65, 108, 233, 109, 32, 68, 105, 115, 115, 111>>, <<65, 108, 233, 109, 32, 100, 105, 115, 115, 111>>>>, <<<<69, 109, 32, 85, 109>>, <<69, 109, 32, 117, 109>>>>,
       <<<<69, 109, 32, 85, 109, 97>>, <<69, 109, 32, 117, 109, 97>>>>, <<<<80, 111, 114, 32, 73, 115, 115, 111>>, <<80, 111, 114, 32, 105, 115, 115, 111>>>>,
       <<<<80, 111, 114, 32, 69, 120, 101, 109, 112, 108, 111>>, <<80, 111, 114, 32, 101, 120, 101, 109, 112, 108, 111>>>>, <<<<68, 101, 115, 115, 97, 32, 70, 111, 114, 109, 97>>, <<68, 101, 115, 115, 97, 32, 102, 111, 114, 109, 97>>>>,
       <<<<78, 111, 32, 69, 110, 116, 97, 110, 116, 111>>, <<78, 111, 32, 101, 110, 116, 97, 110, 116, 111>>>>, <<<<80, 111, 114, 32, 79, 117, 116, 114, 111, 32, 76, 97, 100, 111>>, <<80, 111, 114, 32, 111, 117, 116, 114, 111, 32, 108, 97, 100, 111>>>>,
       <<<<68, 101, 32, 70, 111, 114, 109, 97, 32, 71, 101, 114, 97, 108>>, <<68, 101, 32, 102, 111, 114, 109, 97, 32, 103, 101, 114, 97, 108>>>>,
       <<<<69, 109, 32, 67, 111, 109, 112, 97, 114, 97, 231, 227, 111>>, <<69, 109, 32, 99, 111, 109, 112, 97, 114, 97, 231, 227, 111>>>>, <<<<69, 109, 32, 82, 101, 115, 117, 109, 111>>, <<69, 109, 32, 114, 101, 115, 117, 109, 111>>>>,
       <<<<79, 117, 32, 83, 101, 106, 97>>, <<79, 117, 32, 115, 101, 106, 97>>>>, <<<<65, 115, 115, 105, 109, 32, 83, 101, 110, 100, 111>>, <<65, 115, 115, 105, 109, 32, 115, 101, 110, 100, 111>>>> >>

\* lines 700-702, from the k-th pattern on
RECURSIVE FixCapitalsFrom(_, _)
FixCapitalsFrom(content, k) ==
    IF k > Len(CapitalPatterns) THEN content
    ELSE LET old == CapitalPatterns[k][1]
             matches == {j \in Occurrences(content, old) :
                            /\ NotSentenceStart(content, j)
                            /\ WordBounded(content, j, Len(old))}
         IN  CHOOSE out \in
                 {FixCapitalsFrom(fixed, k + 1) :
                     fixed \in {ReplaceFrom(content, matches, Len(old),
                                            CapitalPatterns[k][2], 1)}} : TRUE

\* ContentGenerator._fix_unnecessary_capitals (lines 677-704)
FixUnnecessaryCapitals(content) ==
    IF ~Truthy(content) THEN content ELSE FixCapitalsFrom(content, 1)

\* content_generator.py lines 712-723
GenderCorrections ==
    << <<<<111, 32, 73, 109, 112, 114, 101, 115, 115, 111, 114, 97>>, <<97, 32, 73, 109, 112, 114, 101, 115, 115, 111, 114, 97>>>>, <<<<111, 32, 105, 109, 112, 114, 101, 115, 115, 111, 114, 97>>, <<97, 32, 105, 109, 112, 114, 101, 115, 115, 111, 114, 97>>>>,
       <<<<111, 32, 109, 117, 108, 116, 105, 102, 117, 110, 99, 105, 111, 110, 97, 108>>, <<97, 32, 109, 117, 108, 116, 105, 102, 117, 110, 99, 105, 111, 110, 97, 108>>>>,
       <<<<111, 32, 77, 117, 108, 116, 105, 102, 117, 110, 99, 105, 111, 110, 97, 108>>, <<97, 32, 77, 117, 108, 116, 105, 102, 117, 110, 99, 105, 111, 110, 97, 108>>>>,
       <<<<111, 32, 101, 115, 99, 97, 110, 101, 114>>, <<111, 32, 115, 99, 97, 110, 110, 101, 114>>>>, <<<<111, 32, 69, 115, 99, 97, 110, 101, 114>>, <<111, 32, 83, 99, 97, 110, 110, 101, 114>>>>,
       <<<<97, 32, 116, 111, 110, 101, 114>>, <<111, 32, 116, 111, 110, 101, 114>>>>, <<<<97, 32, 84, 111, 110, 101, 114>>, <<111, 32, 84, 111, 110, 101, 114>>>>,
       <<<<97, 32, 112, 97, 112, 101, 108>>, <<111, 32, 112, 97, 112, 101, 108>>>>, <<<<97, 32, 80, 97, 112, 101, 108>>, <<111, 32, 80, 97, 112, 101, 108>>>> >>

\* re.sub of \b-bounded texts, one correction after the other
RECURSIVE FixBoundedFrom(_, _, _)
FixBoundedFrom(content, corrections, k) ==
    IF k > Len(corrections) THEN content
    ELSE LET old == corrections[k][1]
             matches == {j \in Occurrences(content, old) :
                            WordBounded(content, j, Len(old))}
         IN  CHOOSE out \in
                 {FixBoundedFrom(fixed, corrections, k + 1) :
                     fixed \in {ReplaceFrom(content, matches, Len(old),
                                            corrections[k][2], 1)}} : TRUE

\* ContentGenerator._fix_article_gender_agreement (lines 706-728)
FixArticleGenderAgreement(content) ==
    IF ~Truthy(content) THEN content ELSE FixBoundedFrom(content, GenderCorrections, 1)

\* len(words) <= 100, len(current_chunk) >= 100
MaxParagraphWords == 100

\* len(current_chunk) >= 90 and >= 85
ChunkWordsYoast == 90
ChunkWordsEnhanced == 85

\* last_period > 50
ChunkPeriodAfter == 50

\* s.rfind(c) + 1
LastIndex(s, c) ==
    LET found == {i \in 1..Len(s) : s[i] = c}
    IN  IF found = {} THEN 0 ELSE CHOOSE i \in found : \A j \in found : j <= i

\* the loop over the words of a long paragraph: words[from..] are still to
\* come and current_chunk holds the words since the last break
RECURSIVE ParagraphChunks(_, _, _, _)
ParagraphChunks(words, from, current_chunk, chunk_words) ==
    LET left == Len(words) - from + 1
        text(n) == JoinSep(current_chunk \o SubSeq(words, from, from + n - 1), <<32>>)
        breaks == {n \in 1..Min2(left, MaxParagraphWords) :
                      /\ Len(current_chunk) + n >= chunk_words
                      /\ \/ LastIndex(text(n), 46) > ChunkPeriodAfter + 1
                         \/ Len(current_chunk) + n >= MaxParagraphWords}
        n == MinOf(breaks)
    IN  IF n = 0
        THEN IF current_chunk \o SubSeq(words, from, Len(words)) = << >> THEN << >>
             ELSE << JoinSep(current_chunk \o SubSeq(words, from, Len(words)), <<32>>) >>
        ELSE CHOOSE out \in
                 {IF LastIndex(chunk_text, 46) > ChunkPeriodAfter + 1
                  THEN << SubSeq(chunk_text, 1, LastIndex(chunk_text, 46)) >>
                       \o ParagraphChunks(words, from + n,
                              SplitWs(SubSeq(chunk_text, LastIndex(chunk_text, 46) + 1,
                                             Len(chunk_text))),
                              chunk_words)
                  ELSE << chunk_text >> \o ParagraphChunks(words, from + n, << >>,
                                                            chunk_words) :
                     chunk_text \in {text(n)}} : TRUE

\* the lines of a body with the long plain ones broken up, joined by blank
\* lines
OptimizeParagraphLength(content, chunk_words) ==
    LET paragraphs == SplitOn(content, 10)
        pieces(p) ==
            IF ~IsPlainLine(paragraphs[p]) \/ WordCount(paragraphs[p]) <= MaxParagraphWords
            THEN << paragraphs[p] >>
            ELSE ParagraphChunks(SplitWs(paragraphs[p]), 1, << >>, chunk_words)
    IN  JoinSep(Flatten([p \in 1..Len(paragraphs) |-> pieces(p)]), ParaSep)

\* ContentGenerator._optimize_paragraph_length_yoast (lines 841-885)
OptimizeParagraphLengthYoast(content) ==
    IF ~Truthy(content) THEN content
    ELSE OptimizeParagraphLength(content, ChunkWordsYoast)

\* SEOOptimizer._optimize_paragraph_length_enhanced (lines 628-669)
OptimizeParagraphLengthEnhanced(content) ==
    OptimizeParagraphLength(content, ChunkWordsEnhanced)

\* seo_optimizer.py lines 378-391
EnhancedCapitalPatterns ==
    << <<<<65, 108, 233, 109, 32, 68, 105, 115, 115, 111>>, <<97, 108, 233, 109, 32, 100, 105, 115, 115, 111>>>>, <<<<69, 109, 32, 85, 109>>, <<101, 109, 32, 117, 109>>>>,
       <<<<69, 109, 32, 85, 109, 97>>, <<101, 109, 32, 117, 109, 97>>>>, <<<<80, 111, 114, 32, 73, 115, 115, 111>>, <<112, 111, 114, 32, 105, 115, 115, 111>>>>,
       <<<<80, 111, 114, 32, 69, 120, 101, 109, 112, 108, 111>>, <<112, 111, 114, 32, 101, 120, 101, 109, 112, 108, 111>>>>, <<<<68, 101, 115, 115, 97, 32, 70, 111, 114, 109, 97>>, <<100, 101, 115, 115, 97, 32, 102, 111, 114, 109, 97>>>>,
       <<<<78, 111, 32, 69, 110, 116, 97, 110, 116, 111>>, <<110, 111, 32, 101, 110, 116, 97, 110, 116, 111>>>>, <<<<80, 111, 114, 32, 79, 117, 116, 114, 111, 32, 76, 97, 100, 111>>, <<112, 111, 114, 32, 111, 117, 116, 114, 111, 32, 108, 97, 100, 111>>>>,
       <<<<68, 101, 32, 70, 111, 114, 109, 97, 32, 71, 101, 114, 97, 108>>, <<100, 101, 32, 102, 111, 114, 109, 97, 32, 103, 101, 114, 97, 108>>>>,
       <<<<69, 109, 32, 67, 111, 109, 112, 97, 114, 97, 231, 227, 111>>, <<101, 109, 32, 99, 111, 109, 112, 97, 114, 97, 231, 227, 111>>>>, <<<<69, 109, 32, 82, 101, 115, 117, 109, 111>>, <<101, 109, 32, 114, 101, 115, 117, 109, 111>>>>,
       <<<<79, 117, 32, 83, 101, 106, 97>>, <<111, 117, 32, 115, 101, 106, 97>>>> >>

\* lines 393-394, from the k-th correction on
RECURSIVE FixLinguisticFrom(_, _)
FixLinguisticFrom(content, k) ==
    IF k > Len(EnhancedCapitalPatterns) THEN content
    ELSE LET old == EnhancedCapitalPatterns[k][1]
             matches == {j \in Occurrences(content, old) : NotSentenceStart(content, j)}
         IN  CHOOSE out \in
                 {FixLinguisticFrom(fixed, k + 1) :
                     fixed \in {ReplaceFrom(content, matches, Len(old),
                                            EnhancedCapitalPatterns[k][2], 1)}} : TRUE

\* seo_optimizer.py lines 397-406
ArticleCorrections ==
    << <<<<111, 32, 73, 109, 112, 114, 101, 115, 115, 111, 114, 97>>, <<97, 32, 73, 109, 112, 114, 101, 115, 115, 111, 114, 97>>>>, <<<<111, 32, 105, 109, 112, 114, 101, 115, 115, 111, 114, 97>>, <<97, 32, 105, 109, 112, 114, 101, 115, 115, 111, 114, 97>>>>,
       <<<<111, 32, 109, 117, 108, 116, 105, 102, 117, 110, 99, 105, 111, 110, 97, 108>>, <<97, 32, 109, 117, 108, 116, 105, 102, 117, 110, 99, 105, 111, 110, 97, 108>>>>,
       <<<<111, 32, 77, 117, 108, 116, 105, 102, 117, 110, 99, 105, 111, 110, 97, 108>>, <<97, 32, 77, 117, 108, 116, 105, 102, 117, 110, 99, 105, 111, 110, 97, 108>>>>,
       <<<<97, 32, 116, 111, 110, 101, 114>>, <<111, 32, 116, 111, 110, 101, 114>>>>, <<<<97, 32, 84, 111, 110, 101, 114>>, <<111, 32, 84, 111, 110, 101, 114>>>>,
       <<<<97, 32, 112, 97, 112, 101, 108>>, <<111, 32, 112, 97, 112, 101, 108>>>>, <<<<97, 32, 80, 97, 112, 101, 108>>, <<111, 32, 80, 97, 112, 101, 108>>>> >>

\* SEOOptimizer._fix_linguistic_errors_enhanced (lines 372-411)
FixLinguisticErrorsEnhanced(content) ==
    IF ~Truthy(content) THEN content
    ELSE CHOOSE out \in {FixBoundedFrom(fixed, ArticleCorrections, 1) :
                            fixed \in {FixLinguisticFrom(content, 1)}} : TRUE

\* seo_optimizer.py lines 673-690
PassiveToActive ==
    << <<<<233, 32, 111, 102, 101, 114, 101, 99, 105, 100, 111, 32, 112, 111, 114>>, <<111, 102, 101, 114, 101, 99, 101>>>>, <<<<115, 227, 111, 32, 111, 102, 101, 114, 101, 99, 105, 100, 111, 115, 32, 112, 111,
      114>>, <<111, 102, 101, 114, 101, 99, 101, 109>>>>,
       <<<<233, 32, 112, 114, 111, 112, 111, 114, 99, 105, 111, 110, 97, 100, 111, 32, 112,
      111, 114>>, <<112, 114, 111, 112, 111, 114, 99, 105, 111, 110, 97>>>>,
       <<<<115, 227, 111, 32, 112, 114, 111, 112, 111, 114, 99, 105, 111, 110, 97, 100, 111,
      115, 32, 112, 111, 114>>, <<112, 114, 111, 112, 111, 114, 99, 105, 111, 110, 97, 109>>>>,
       <<<<233, 32, 103, 97, 114, 97, 110, 116, 105, 100, 111, 32, 112, 111, 114>>, <<103, 97, 114, 97, 110, 116, 101>>>>, <<<<115, 227, 111, 32, 103, 97, 114, 97, 110, 116, 105, 100, 111, 115, 32, 112, 111,
      114>>, <<103, 97, 114, 97, 110, 116, 101, 109>>>>,
       <<<<233, 32, 114, 101, 99, 111, 109, 101, 110, 100, 97, 100, 111>>, <<114, 101, 99, 111, 109, 101, 110, 100, 97, 109, 111, 115>>>>, <<<<115, 227, 111, 32, 114, 101, 99, 111, 109, 101, 110, 100, 97, 100, 111, 115>>, <<114, 101, 99, 111, 109, 101, 110, 100, 97, 109, 111, 115>>>>,
       <<<<233, 32, 117, 116, 105, 108, 105, 122, 97, 100, 111>>, <<117, 116, 105, 108, 105, 122, 97>>>>, <<<<115, 227, 111, 32, 117, 116, 105, 108, 105, 122, 97, 100, 111, 115>>, <<117, 116, 105, 108, 105, 122, 97, 109>>>>,
       <<<<112, 111, 100, 101, 32, 115, 101, 114, 32, 117, 115, 97, 100, 111>>, <<118, 111, 99, 234, 32, 112, 111, 100, 101, 32, 117, 115, 97, 114>>>>,
       <<<<112, 111, 100, 101, 109, 32, 115, 101, 114, 32, 117, 115, 97, 100, 111, 115>>, <<118, 111, 99, 234, 32, 112, 111, 100, 101, 32, 117, 115, 97, 114>>>>,
       <<<<115, 101, 114, 225, 32, 98, 101, 110, 101, 102, 105, 99, 105, 97, 100, 111>>, <<118, 111, 99, 234, 32, 115, 101, 32, 98, 101, 110, 101, 102, 105, 99, 105, 97>>>>,
       <<<<115, 101, 114, 227, 111, 32, 98, 101, 110, 101, 102, 105, 99, 105, 97, 100, 111,
      115>>, <<118, 111, 99, 234, 115, 32, 115, 101, 32, 98, 101, 110, 101, 102, 105, 99, 105,
      97, 109>>>>,
       <<<<102, 111, 105, 32, 100, 101, 115, 101, 110, 118, 111, 108, 118, 105, 100, 111>>, <<100, 101, 115, 101, 110, 118, 111, 108, 118, 101, 109, 111, 115>>>>,
       <<<<102, 111, 114, 97, 109, 32, 100, 101, 115, 101, 110, 118, 111, 108, 118, 105, 100,
      111, 115>>, <<100, 101, 115, 101, 110, 118, 111, 108, 118, 101, 109, 111, 115>>>> >>

\* lines 692-693, from the k-th form on
RECURSIVE ImproveActiveVoiceFrom(_, _)
ImproveActiveVoiceFrom(content, k) ==
    IF k > Len(PassiveToActive) THEN content
    ELSE CHOOSE out \in
             {ImproveActiveVoiceFrom(fixed, k + 1) :
                 fixed \in {ReplaceIgnoreCase(content, PassiveToActive[k][1],
                                              PassiveToActive[k][2])}} : TRUE

\* SEOOptimizer._improve_active_voice_enhanced (lines 671-695)
ImproveActiveVoiceEnhanced(content) == ImproveActiveVoiceFrom(content, 1)

\* lines 700 and 703: the first 200 characters, the first 100
IntroSpan == 200
IntroKeywordSpan == 100

\* lines 706-707: the introductions
IntroFeminine(keyword) ==
    <<65, 32>> \o keyword
        \o <<32, 233, 32, 117, 109, 97, 32, 115, 111, 108, 117, 231, 227, 111, 32, 101, 115,
      115, 101, 110, 99, 105, 97, 108, 32, 112, 97, 114, 97, 32, 113, 117, 101, 109,
      32, 98, 117, 115, 99, 97, 32, 113, 117, 97, 108, 105, 100, 97, 100, 101, 32,
      101, 32, 101, 102, 105, 99, 105, 234, 110, 99, 105, 97, 46>>
IntroMasculine(keyword) ==
    <<79, 32>> \o keyword \o <<32, 111, 102, 101, 114, 101, 99, 101, 32, 114, 101, 99, 117, 114, 115, 111, 115,
      32, 97, 118, 97, 110, 231, 97, 100, 111, 115, 32, 101, 32, 100, 101, 115, 101,
      109, 112, 101, 110, 104, 111, 32, 115, 117, 112, 101, 114, 105, 111, 114, 46>>

\* SEOOptimizer._ensure_keyword_in_intro (lines 697-723)
EnsureKeywordInIntro(content, keyword) ==
    LET first_paragraph == IF Contains(content, <<10>>) THEN SplitOn(content, 10)[1]
                           ELSE Prefix(content, IntroSpan)
        new_intro == IF \/ Contains(Lower(keyword), WordImpressora)
                        \/ Contains(Lower(keyword), WordMultifuncional)
                     THEN IntroFeminine(keyword)
                     ELSE IntroMasculine(keyword)
    IN  IF Contains(Lower(Prefix(first_paragraph, IntroKeywordSpan)), Lower(keyword))
        THEN content
        ELSE IF StartsWith(content, first_paragraph)
        THEN new_intro \o <<32>> \o content
        ELSE new_intro \o ParaSep \o content

-----------------------------------------------------------------------------
(* The body through the two pipelines of generate_article:                  *)
(* ContentGenerator._optimize_readability_yoast and then SEOOptimizer.      *)
(* optimize_article                                                         *)

\* ContentGenerator._add_images_with_keyword_alt (lines 418-431): the body
\* as it came
AddImagesWithKeywordAlt(content, product_name) == content

\* _optimize_readability_yoast, lines 202-218: the six passes marked
\* CRITICO, the link sanitization the last of them
ReadabilityLinks(content, product_name, link_to_add) ==
    CHOOSE result \in
        { CleanUrlsInContent(led) : led \in
        { EnsureKeywordInFirstParagraph(pictured, product_name) : pictured \in
        { AddImagesWithKeywordAlt(linked, product_name) : linked \in
        { EnsureExternalLinks(internal, product_name) : internal \in
        { AddMandatoryInternalLinks(padded, link_to_add) : padded \in
        { EnsureMinimumContentLength(content, product_name) } } } } } } : TRUE

\* what random.choice can draw in the sentence-length pass: nothing when
\* no sentence is long enough to be broken
SentencePicks(content) ==
    IF \E k \in DOMAIN SentencePieces(content) :
           WordCount(SentencePieces(content)[k]) > MaxSentenceWords
    THEN [1..2 -> DOMAIN YoastCutTransitions]
    ELSE {<<1, 1>>}

\* lines 221-223: the passes after the six and before the transition pass
ReadabilityHead(cleaned, picks) ==
    CHOOSE result \in
        { FixArticleGenderAgreement(lowered) : lowered \in
        { FixUnnecessaryCapitals(split) : split \in
        { OptimizeSentenceLengthYoast(cleaned, picks) } } } : TRUE

\* lines 224-227: the transition pass and the passes after it
ReadabilityTail(head, product_name, draws) ==
    CHOOSE result \in
        { ConvertToActiveVoice(chunked) : chunked \in
        { OptimizeParagraphLengthYoast(listed) : listed \in
        { OptimizeListsYoast(joined, product_name) : joined \in
        { AddTransitionWordsYoast(head, draws) } } } } : TRUE

\* SEOOptimizer.stop_words (seo_optimizer.py lines 35-41)
OptimizerStopWords ==
    {<<97>>, <<101>>, <<111>>, <<100, 101>>, <<100, 97>>, <<100, 111>>, <<112, 97, 114, 97>>, <<99, 111, 109>>, <<101, 109>>, <<110, 97>>,
     <<110, 111>>, <<112, 111, 114>>, <<97, 116, 233>>, <<99, 111, 109, 111>>, <<109, 97, 105, 115>>, <<109, 117, 105, 116, 111>>, <<115, 101, 109>>, <<115, 101, 117>>, <<115, 117, 97>>,
     <<115, 101, 117, 115>>, <<115, 117, 97, 115>>, <<113, 117, 101>>, <<113, 117, 97, 108>>, <<113, 117, 97, 110, 100, 111>>, <<111, 110, 100, 101>>, <<112, 111, 114, 113, 117, 101>>, <<117, 109>>,
     <<117, 109, 97>>, <<117, 110, 115>>, <<117, 109, 97, 115>>, <<105, 115, 115, 111>>, <<101, 115, 115, 97>>, <<101, 115, 116, 97>>, <<101, 115, 116, 101>>, <<101, 115, 116, 97, 115>>,
     <<101, 115, 116, 101, 115>>, <<101, 108, 97>>, <<101, 108, 101>>, <<101, 108, 97, 115>>, <<101, 108, 101, 115>>, <<115, 101, 114>>, <<116, 101, 114>>, <<101, 115, 116, 97, 114>>}

\* the first two words of a lowered text that are no stop words and have
\* more than two characters, or the text itself when there are none
FirstKeywords(text) ==
    LET keywords == SelectSeq(SplitWs(Lower(text)),
                              LAMBDA w : w \notin OptimizerStopWords /\ Len(w) > 2)
    IN  IF keywords # << >> THEN JoinSep(Prefix(keywords, 2), <<32>>) ELSE Lower(text)

\* SEOOptimizer._extract_primary_keyword (lines 102-120)
ExtractPrimaryKeyword(title, product_name) ==
    IF Truthy(product_name) THEN FirstKeywords(product_name)
    ELSE IF Truthy(title) THEN FirstKeywords(title)
    ELSE KeywordDefault

\* optimize_content_readability_enhanced, lines 344-348: the passes before
\* the transition pass
EnhancedHead(content) ==
    CHOOSE result \in
        { OptimizeSentenceLengthEnhanced(fixed) : fixed \in
        { FixLinguisticErrorsEnhanced(content) } } : TRUE

\* lines 350-363: the transition pass and the passes after it
EnhancedTail(head, keyword, draws) ==
    CHOOSE result \in
        { EnsureKeywordInIntro(active, keyword) : active \in
        { ImproveActiveVoiceEnhanced(chunked) : chunked \in
        { OptimizeParagraphLengthEnhanced(listed) : listed \in
        { OptimizeListsEnhanced(joined, keyword) : joined \in
        { AddTransitionWordsEnhanced(head, draws) } } } } } : TRUE

-----------------------------------------------------------------------------
(* Sample inputs: the article dictionaries handed to the review store and  *)
(* to the publisher.                                                        *)

\* "Canon Pixma G3111"
NameCanon ==
    <<67, 97, 110, 111, 110, 32, 80, 105, 120, 109, 97, 32, 71, 51, 49, 49, 49>>

\* "HP LaserJet Pro M404n"
NameHp ==
    <<72, 80, 32, 76, 97, 115, 101, 114, 74, 101, 116, 32, 80, 114, 111, 32, 77, 52, 48, 52,
    110>>

\* "canon pixma g3111"
PhraseG3111 ==
    <<99, 97, 110, 111, 110, 32, 112, 105, 120, 109, 97, 32, 103, 51, 49, 49, 49>>

\* "Canon Pixma G3111 review completo"
TitleCanonReview ==
    <<67, 97, 110, 111, 110, 32, 80, 105, 120, 109, 97, 32, 71, 51, 49, 49, 49, 32, 114, 101,
    118, 105, 101, 119, 32, 99, 111, 109, 112, 108, 101, 116, 111>>

\* "Review da Canon Pixma G3111 com tanque de tinta, wifi e baixo custo por pagina"
MetaCanonReview ==
    <<82, 101, 118, 105, 101, 119, 32, 100, 97, 32, 67, 97, 110, 111, 110, 32, 80, 105, 120,
    109, 97, 32, 71, 51, 49, 49, 49, 32, 99, 111, 109, 32, 116, 97, 110, 113, 117, 101, 32,
    100, 101, 32, 116, 105, 110, 116, 97, 44, 32, 119, 105, 102, 105, 32, 101, 32, 98, 97, 105,
    120, 111, 32, 99, 117, 115, 116, 111, 32, 112, 111, 114, 32, 112, 97, 103, 105, 110, 97>>

\* "<p>short</p>"
BodyShort ==
    <<60, 112, 62, 115, 104, 111, 114, 116, 60, 47, 112, 62>>

\* "<h2>Canon Pixma G3111 em detalhes</h2>"
SampleHeading ==
    <<60, 104, 50, 62, 67, 97, 110, 111, 110, 32, 80, 105, 120, 109, 97, 32, 71, 51, 49, 49,
    49, 32, 101, 109, 32, 100, 101, 116, 97, 108, 104, 101, 115, 60, 47, 104, 50, 62>>

\* "A canon pixma g3111 entrega qualidade para o escritorio moderno."
SampleSentence1 ==
    <<65, 32, 99, 97, 110, 111, 110, 32, 112, 105, 120, 109, 97, 32, 103, 51, 49, 49, 49, 32,
    101, 110, 116, 114, 101, 103, 97, 32, 113, 117, 97, 108, 105, 100, 97, 100, 101, 32, 112,
    97, 114, 97, 32, 111, 32, 101, 115, 99, 114, 105, 116, 111, 114, 105, 111, 32, 109, 111,
    100, 101, 114, 110, 111, 46>>

\* "Al\xe9m disso, o equipamento economiza tinta em cada pagina impressa."
SampleSentence2 ==
    <<65, 108, 233, 109, 32, 100, 105, 115, 115, 111, 44, 32, 111, 32, 101, 113, 117, 105, 112,
    97, 109, 101, 110, 116, 111, 32, 101, 99, 111, 110, 111, 109, 105, 122, 97, 32, 116, 105,
    110, 116, 97, 32, 101, 109, 32, 99, 97, 100, 97, 32, 112, 97, 103, 105, 110, 97, 32, 105,
    109, 112, 114, 101, 115, 115, 97, 46>>

\* "Portanto, o custo por pagina fica muito baixo no final."
SampleSentence3 ==
    <<80, 111, 114, 116, 97, 110, 116, 111, 44, 32, 111, 32, 99, 117, 115, 116, 111, 32, 112,
    111, 114, 32, 112, 97, 103, 105, 110, 97, 32, 102, 105, 99, 97, 32, 109, 117, 105, 116,
    111, 32, 98, 97, 105, 120, 111, 32, 110, 111, 32, 102, 105, 110, 97, 108, 46>>

\* "Esse modelo tem conexao sem fio simples de configurar em casa."
SampleSentence4 ==
    <<69, 115, 115, 101, 32, 109, 111, 100, 101, 108, 111, 32, 116, 101, 109, 32, 99, 111, 110,
    101, 120, 97, 111, 32, 115, 101, 109, 32, 102, 105, 111, 32, 115, 105, 109, 112, 108, 101,
    115, 32, 100, 101, 32, 99, 111, 110, 102, 105, 103, 117, 114, 97, 114, 32, 101, 109, 32,
    99, 97, 115, 97, 46>>

\* "Tamb\xe9m vale destacar o tanque integrado de facil recarga."
SampleSentence5 ==
    <<84, 97, 109, 98, 233, 109, 32, 118, 97, 108, 101, 32, 100, 101, 115, 116, 97, 99, 97,
    114, 32, 111, 32, 116, 97, 110, 113, 117, 101, 32, 105, 110, 116, 101, 103, 114, 97, 100,
    111, 32, 100, 101, 32, 102, 97, 99, 105, 108, 32, 114, 101, 99, 97, 114, 103, 97, 46>>

\* "Muitos usuarios elogiam a velocidade boa de impressao colorida."
SampleSentence6 ==
    <<77, 117, 105, 116, 111, 115, 32, 117, 115, 117, 97, 114, 105, 111, 115, 32, 101, 108,
    111, 103, 105, 97, 109, 32, 97, 32, 118, 101, 108, 111, 99, 105, 100, 97, 100, 101, 32, 98,
    111, 97, 32, 100, 101, 32, 105, 109, 112, 114, 101, 115, 115, 97, 111, 32, 99, 111, 108,
    111, 114, 105, 100, 97, 46>>

\* "<p>Veja mais em <a href="https://www.creativecopias.com.br/impressoras">nossa loja</a> e no site <a href="https://www.canon.com.br">canon.com</a> oficial da marca.</p>"
SampleLinks ==
    <<60, 112, 62, 86, 101, 106, 97, 32, 109, 97, 105, 115, 32, 101, 109, 32, 60, 97, 32, 104,
    114, 101, 102, 61, 34, 104, 116, 116, 112, 115, 58, 47, 47, 119, 119, 119, 46, 99, 114,
    101, 97, 116, 105, 118, 101, 99, 111, 112, 105, 97, 115, 46, 99, 111, 109, 46, 98, 114, 47,
    105, 109, 112, 114, 101, 115, 115, 111, 114, 97, 115, 34, 62, 110, 111, 115, 115, 97, 32,
    108, 111, 106, 97, 60, 47, 97, 62, 32, 101, 32, 110, 111, 32, 115, 105, 116, 101, 32, 60,
    97, 32, 104, 114, 101, 102, 61, 34, 104, 116, 116, 112, 115, 58, 47, 47, 119, 119, 119, 46,
    99, 97, 110, 111, 110, 46, 99, 111, 109, 46, 98, 114, 34, 62, 99, 97, 110, 111, 110, 46,
    99, 111, 109, 60, 47, 97, 62, 32, 111, 102, 105, 99, 105, 97, 108, 32, 100, 97, 32, 109,
    97, 114, 99, 97, 46, 60, 47, 112, 62>>

\* "<p>" sentences joined by a space "</p>"
SampleParagraph ==
    <<60, 112, 62>>
    \o JoinSep(<<SampleSentence1, SampleSentence2, SampleSentence3, SampleSentence4,
                 SampleSentence5, SampleSentence6>>, <<32>>)
    \o <<60, 47, 112, 62>>

\* The long article body: a heading, the paragraph eight times on lines of
\* their own, and a closing paragraph with an internal and an external link.
BodyCanon ==
    SampleHeading \o JoinSep([i \in 1..8 |-> SampleParagraph], <<10>>) \o SampleLinks

\* What the validator measures of the body the content optimizer returns for
\* the long article under the phrase "canon pixma g3111".
OptimizedCanon ==
    [none |-> FALSE, kw_first_100 |-> TRUE, word_count |-> 527,
     internal_link |-> TRUE, external_link |-> TRUE, keyword_count |-> 9,
     sentences |-> 50, transition_count |-> 30, consecutive_count |-> 0,
     heading_kw |-> TRUE]

\* The same for "<p>short</p>" under "laserjet pro m404n" ...
OptimizedShortHp ==
    [none |-> FALSE, kw_first_100 |-> TRUE, word_count |-> 37,
     internal_link |-> TRUE, external_link |-> TRUE, keyword_count |-> 2,
     sentences |-> 3, transition_count |-> 0, consecutive_count |-> 0,
     heading_kw |-> FALSE]

\* ... and for "<p>short</p>" under "canon pixma g3111".
OptimizedShortCanon ==
    [none |-> FALSE, kw_first_100 |-> TRUE, word_count |-> 35,
     internal_link |-> TRUE, external_link |-> TRUE, keyword_count |-> 2,
     sentences |-> 3, transition_count |-> 0, consecutive_count |-> 0,
     heading_kw |-> FALSE]

\* article_data: the keys prepare_article_for_publication and the review
\* store read. Articles 1 and 3 share a title and a product, article 2 has
\* no title, only article 1 brings a description; optimized_content is the
\* prepared body as the validator sees it.
ArticleData ==
    <<[id |-> 1, titulo |-> TitleCanonReview, conteudo |-> BodyCanon,
       meta_descricao |-> MetaCanonReview, produto_nome |-> NameCanon,
       optimized_content |-> OptimizedCanon],
      [id |-> 2, titulo |-> << >>, conteudo |-> BodyShort,
       meta_descricao |-> << >>, produto_nome |-> NameHp,
       optimized_content |-> OptimizedShortHp],
      [id |-> 3, titulo |-> TitleCanonReview, conteudo |-> BodyShort,
       meta_descricao |-> << >>, produto_nome |-> NameCanon,
       optimized_content |-> OptimizedShortCanon]>>

Articles == DOMAIN ArticleData

-----------------------------------------------------------------------------
(* PublicationManager.prepare_article_for_publication                      *)

\* produto_nome or title
KeyphraseSource(article_data) ==
    IF Truthy(article_data.produto_nome) THEN article_data.produto_nome
    ELSE article_data.titulo

\* The prepared dictionary: the phrase, the composed title and description
\* and the validation report. Nothing here reads validation.is_valid.
PrepareArticleForPublication(article_data, rows, timestamp) ==
    LET focus_keyphrase ==
            GenerateFocusKeyphrase(KeyphraseSource(article_data), rows, timestamp)
        seo_title == OptimizeSeoTitle(article_data.titulo, focus_keyphrase)
        meta_desc == OptimizeMetaDescription(article_data.meta_descricao,
                                             focus_keyphrase, article_data.conteudo)
        validation == ValidateYoast(article_data.optimized_content, focus_keyphrase,
                                    seo_title, meta_desc)
    IN  [article_id       |-> article_data.id,
         title            |-> seo_title,
         meta_description |-> meta_desc,
         focus_keyphrase  |-> focus_keyphrase,
         is_valid         |-> validation.is_valid,
         score_num        |-> validation.score_num,
         score_den        |-> validation.score_den]

\* The texts of the prepared dictionary (lines 162-198): the phrase, the
\* title, the slug of "slug or title", the description and the body.
PreparedData(article_data, rows, timestamp) ==
    LET focus_keyphrase ==
            GenerateFocusKeyphrase(KeyphraseSource(article_data), rows, timestamp)
    IN  [title            |-> OptimizeSeoTitle(article_data.titulo, focus_keyphrase),
         slug             |-> OptimizeSlugWithKeyphrase(article_data.titulo,
                                                        focus_keyphrase),
         content          |-> OptimizeContentForYoastGreen(article_data.conteudo,
                                  focus_keyphrase, article_data.produto_nome),
         meta_description |-> OptimizeMetaDescription(article_data.meta_descricao,
                                  focus_keyphrase, article_data.conteudo),
         focus_keyphrase  |-> focus_keyphrase]

-----------------------------------------------------------------------------
(* ContentDeduplicator: ReviewManager._calculate_content_hash,              *)
(* _is_duplicate_article and save_article_for_review                        *)

\* The columns CREATE TABLE gives the articles table.
ArticlesColumns ==
    {"id", "titulo", "slug", "meta_descricao", "conteudo", "tags", "produto_id",
     "produto_nome", "status", "data_criacao", "data_revisao", "comentario_revisor",
     "revisor_nome", "score_seo", "tipo_produto", "tom_usado", "generation_data"}

\* The columns the INSERT of save_article_for_review names.
ArticlesInsertColumns ==
    {"titulo", "slug", "meta_descricao", "conteudo", "tags", "produto_id",
     "produto_nome", "tipo_produto", "tom_usado", "score_seo", "generation_data",
     "content_hash"}

HashPrefixLen == 200

\* md5 of titulo followed by conteudo[:200]; the digest is modelled by the
\* text it is taken of, so equal fingerprints mean equal digested text.
CalculateContentHash(article_data) ==
    article_data.titulo \o Prefix(article_data.conteudo, HashPrefixLen)

\* _is_duplicate_article: the first SELECT filters on content_hash, which
\* raises when the table has no such column; the except branch answers False.
IsDuplicateArticle(article_data, rows) ==
    IF "content_hash" \notin ArticlesColumns
    THEN [raised |-> TRUE, duplicate |-> FALSE]
    ELSE [raised |-> FALSE,
          duplicate |->
              \/ \E i \in DOMAIN rows :
                     rows[i].content_hash = CalculateContentHash(article_data)
              \/ /\ Truthy(article_data.titulo)
                 /\ \E i \in DOMAIN rows : rows[i].titulo = article_data.titulo]

\* The INSERT: sqlite raises when a named column is missing.
InsertArticleRaises == ~(ArticlesInsertColumns \subseteq ArticlesColumns)

\* The row the INSERT stores.
ArticleRow(article_data, rows) ==
    [id |-> Len(rows) + 1, titulo |-> article_data.titulo,
     content_hash |-> CalculateContentHash(article_data), source |-> article_data.id]

-----------------------------------------------------------------------------
(* The stores and the callers.  Requests run on worker threads (the API     *)
(* handlers and the scheduler's jobs); every sqlite3.connect block and every *)
(* WordPress request is one step of its caller.                              *)

NumCallers == 2

\* save_article_for_review and publish_article calls started in one run
MaxCalls == 2

\* CURRENT_TIMESTAMP has a resolution of one second: the seconds that pass
MaxClock == 1

Callers == 1..NumCallers

\* "1104", "1231": strftime('%m%d') of the day the call runs
Timestamps == {<<49, 49, 48, 52>>, <<49, 50, 51, 49>>}

VARIABLES
    publications,   \* rows of the publications table, in rowid order
    articles,       \* rows of the articles table of the review store
    wpPosts,        \* posts created in WordPress
    pc,             \* where each caller stands in its call
    frame,          \* the local variables of each caller's call
    reserved,       \* history: the phrases _ensure_unique_keyphrase returned
    saveLog,        \* history: how each save_article_for_review call ended
    calls,          \* calls started so far
    now,            \* the clock, in seconds
    validation,     \* the validator's last call: its arguments and its report
    composed        \* the composers' last call: its arguments and its result

vars == <<publications, articles, wpPosts, pc, frame, reserved, saveLog, calls, now,
          validation, composed>>

storeVars == <<publications, articles, wpPosts, pc, frame, reserved, saveLog, calls, now>>

NoFrame == [op |-> "none"]

NoCall == [op |-> "none"]

\* init_database creates both tables empty; no caller is in a call.
Init ==
    /\ publications = << >>
    /\ articles = << >>
    /\ wpPosts = << >>
    /\ pc = [c \in Callers |-> "idle"]
    /\ frame = [c \in Callers |-> NoFrame]
    /\ reserved = << >>
    /\ saveLog = << >>
    /\ calls = 0
    /\ now = 0
    /\ validation = NoCall
    /\ composed = NoCall

\* A second passes.
Tick ==
    /\ now < MaxClock
    /\ now' = now + 1
    /\ UNCHANGED <<publications, articles, wpPosts, pc, frame, reserved, saveLog, calls,
                   validation, composed>>

\* publish_article is entered; without a WordPress client it returns the
\* failure at once.
PublishArticle(c, a, publish_immediately, configured) ==
    /\ pc[c] = "idle"
    /\ calls < MaxCalls
    /\ calls' = calls + 1
    /\ IF configured
       THEN /\ pc' = [pc EXCEPT ![c] = "prepare"]
            /\ frame' = [frame EXCEPT ![c] =
                   [op |-> "publish", article |-> a,
                    publish_immediately |-> publish_immediately]]
       ELSE UNCHANGED <<pc, frame>>
    /\ UNCHANGED <<publications, articles, wpPosts, reserved, saveLog, now,
                   validation, composed>>

\* prepare_article_for_publication: the registry query is its one database
\* read; the phrase it returns is handed on and stored nowhere.
PublishPrepare(c) ==
    /\ pc[c] = "prepare"
    /\ \E timestamp \in Timestamps :
        LET article_data == ArticleData[frame[c].article]
            prepared == PrepareArticleForPublication(article_data, publications,
                                                     timestamp)
        IN  /\ frame' = [frame EXCEPT ![c] =
                   [op |-> "publish", article |-> frame[c].article,
                    publish_immediately |-> frame[c].publish_immediately,
                    prepared |-> prepared]]
            /\ reserved' =
                   IF Truthy(KeyphraseSource(article_data))
                   THEN Append(reserved,
                            [caller |-> c,
                             asked  |-> KeyphraseCandidate(KeyphraseSource(article_data)),
                             got    |-> prepared.focus_keyphrase,
                             query_raised |-> UsedKeyphrasesQuery(publications).raised])
                   ELSE reserved
    /\ pc' = [pc EXCEPT ![c] = "lookup"]
    /\ UNCHANGED <<publications, articles, wpPosts, saveLog, calls, now,
                   validation, composed>>

\* SELECT ... WHERE article_id = ? ORDER BY created_at DESC LIMIT 1: one of
\* the article's rows of the latest second, sqlite choosing among equals.
LatestPublications(rows, article_id) ==
    {i \in DOMAIN rows :
        /\ rows[i].article_id = article_id
        /\ \A j \in DOMAIN rows :
               rows[j].article_id = article_id => rows[j].created_at <= rows[i].created_at}

\* get_publication_by_article_id and the test on it: only a row whose status
\* is 'published' ends the call.
PublishLookup(c) ==
    /\ pc[c] = "lookup"
    /\ LET found == LatestPublications(publications, frame[c].prepared.article_id)
       IN  \E i \in found \cup {0} :
            /\ (i = 0) = (found = {})
            /\ IF i # 0 /\ publications[i].status = "published"
               THEN /\ pc' = [pc EXCEPT ![c] = "idle"]
                    /\ frame' = [frame EXCEPT ![c] = NoFrame]
               ELSE /\ pc' = [pc EXCEPT ![c] = "post"]
                    /\ UNCHANGED frame
    /\ UNCHANGED <<publications, articles, wpPosts, reserved, saveLog, calls, now,
                   validation, composed>>

\* wp_client.create_post: the post is created, or the request fails and the
\* client returns None. The category and tag requests before it change no
\* state kept here, and the client catches its own exceptions, so the
\* except branch of publish_article is not entered for str arguments.
PublishPost(c) ==
    /\ pc[c] = "post"
    /\ \E created \in BOOLEAN :
        /\ wpPosts' =
               IF created
               THEN Append(wpPosts,
                        [id |-> Len(wpPosts) + 1,
                         article_id |-> frame[c].prepared.article_id,
                         title |-> frame[c].prepared.title,
                         focus_keyphrase |-> frame[c].prepared.focus_keyphrase,
                         status |-> IF frame[c].publish_immediately THEN "publish"
                                    ELSE "draft",
                         is_valid |-> frame[c].prepared.is_valid])
               ELSE wpPosts
        /\ frame' = [frame EXCEPT ![c] =
               [op |-> "publish", article |-> frame[c].article,
                publish_immediately |-> frame[c].publish_immediately,
                prepared |-> frame[c].prepared,
                wp_post_id |-> IF created THEN Len(wpPosts) + 1 ELSE 0]]
    /\ pc' = [pc EXCEPT ![c] = "record"]
    /\ UNCHANGED <<publications, articles, reserved, saveLog, calls, now,
                   validation, composed>>

\* save_publication_record: the INSERT names no focus_keyphrase column.
PublicationRow(rows, prepared, status, wp_post_id, created_at) ==
    [id |-> Len(rows) + 1, article_id |-> prepared.article_id,
     title |-> prepared.title, status |-> status, wp_post_id |-> wp_post_id,
     created_at |-> created_at]

\* The record of the outcome, 'failed' when create_post returned None, and
\* the return of publish_article.
PublishRecord(c) ==
    /\ pc[c] = "record"
    /\ LET status == IF frame[c].wp_post_id = 0 THEN "failed"
                     ELSE IF frame[c].publish_immediately THEN "published"
                     ELSE "scheduled"
       IN  publications' = Append(publications,
               PublicationRow(publications, frame[c].prepared, status,
                              frame[c].wp_post_id, now))
    /\ pc' = [pc EXCEPT ![c] = "idle"]
    /\ frame' = [frame EXCEPT ![c] = NoFrame]
    /\ UNCHANGED <<articles, wpPosts, reserved, saveLog, calls, now,
                   validation, composed>>

\* save_article_for_review is entered.
SaveArticleForReview(c, a) ==
    /\ pc[c] = "idle"
    /\ calls < MaxCalls
    /\ calls' = calls + 1
    /\ pc' = [pc EXCEPT ![c] = "check"]
    /\ frame' = [frame EXCEPT ![c] = [op |-> "save", article |-> a]]
    /\ UNCHANGED <<publications, articles, wpPosts, reserved, saveLog, now,
                   validation, composed>>

\* _is_duplicate_article on a connection of its own; a duplicate raises
\* ValueError and the call ends.
SaveCheck(c) ==
    /\ pc[c] = "check"
    /\ LET verdict == IsDuplicateArticle(ArticleData[frame[c].article], articles)
       IN  IF verdict.duplicate
           THEN /\ saveLog' = Append(saveLog,
                       [caller |-> c, article |-> frame[c].article,
                        check_raised |-> verdict.raised, duplicate |-> TRUE,
                        outcome |-> "duplicate"])
                /\ pc' = [pc EXCEPT ![c] = "idle"]
                /\ frame' = [frame EXCEPT ![c] = NoFrame]
           ELSE /\ pc' = [pc EXCEPT ![c] = "insert"]
                /\ frame' = [frame EXCEPT ![c] =
                       [op |-> "save", article |-> frame[c].article,
                        check_raised |-> verdict.raised]]
                /\ UNCHANGED saveLog
    /\ UNCHANGED <<publications, articles, wpPosts, reserved, calls, now,
                   validation, composed>>

\* The INSERT on a second connection: the row is stored, or sqlite raises
\* and the exception leaves save_article_for_review.
SaveInsert(c) ==
    /\ pc[c] = "insert"
    /\ articles' = IF InsertArticleRaises THEN articles
                   ELSE Append(articles,
                            ArticleRow(ArticleData[frame[c].article], articles))
    /\ saveLog' = Append(saveLog,
           [caller |-> c, article |-> frame[c].article,
            check_raised |-> frame[c].check_raised, duplicate |-> FALSE,
            outcome |-> IF InsertArticleRaises THEN "error" ELSE "stored"])
    /\ pc' = [pc EXCEPT ![c] = "idle"]
    /\ frame' = [frame EXCEPT ![c] = NoFrame]
    /\ UNCHANGED <<publications, wpPosts, reserved, calls, now, validation, composed>>

Next ==
    \/ Tick
    \/ \E c \in Callers, a \in Articles, publish_immediately \in BOOLEAN,
          configured \in BOOLEAN :
           PublishArticle(c, a, publish_immediately, configured)
    \/ \E c \in Callers : PublishPrepare(c)
    \/ \E c \in Callers : PublishLookup(c)
    \/ \E c \in Callers : PublishPost(c)
    \/ \E c \in Callers : PublishRecord(c)
    \/ \E c \in Callers, a \in Articles : SaveArticleForReview(c, a)
    \/ \E c \in Callers : SaveCheck(c)
    \/ \E c \in Callers : SaveInsert(c)

Spec == Init /\ [][Next]_vars

-----------------------------------------------------------------------------
(* The validator on its own: every call of _validate_yoast_green_criteria   *)
(* over a family of bodies, phrases, titles and descriptions.               *)

\* "hp", under the minimal length
PhraseHp == <<104, 112>>

\* three letters none of which the temporary slug keeps
PhraseAccents == <<231, 227, 233>>

ValidatorPhrases == {NoneVal, << >>, PhraseHp, PhraseG3111, PhraseAccents}

\* A title or a description handed to the validator: None, empty, or what
\* the composer makes of an empty one for the phrase.
TextKinds == {"none", "empty", "composed"}

ValidatorTitle(kind, focus_keyphrase) ==
    IF kind = "none" THEN NoneVal
    ELSE IF kind = "empty" \/ IsNone(focus_keyphrase) THEN << >>
    ELSE OptimizeSeoTitle(<< >>, focus_keyphrase)

ValidatorMeta(kind, focus_keyphrase) ==
    IF kind = "none" THEN NoneVal
    ELSE IF kind = "empty" \/ IsNone(focus_keyphrase) THEN << >>
    ELSE OptimizeMetaDescription(<< >>, focus_keyphrase, << >>)

\* word_count around the minimum, keyword_count below, within and above the
\* density range, sentence lists with and without enough transitions
WordCounts == {0, MinWords - 1, MinWords}

KeywordCounts == {0, 1, 2, 8}

SentenceCounts == {<<0, 0>>, <<4, 0>>, <<4, 1>>}

LinkKinds == {<<FALSE, FALSE>>, <<TRUE, FALSE>>, <<TRUE, TRUE>>}

\* The measurements of a body; an empty body measures nothing, and the
\* phrase is in the first 100 words only if it is in the body at all.
ValidatorBodies ==
    {[none |-> FALSE, kw_first_100 |-> first, word_count |-> wc,
      internal_link |-> links[1], external_link |-> links[2],
      keyword_count |-> kc, sentences |-> sc[1], transition_count |-> sc[2],
      consecutive_count |-> cc, heading_kw |-> hk] :
        first \in BOOLEAN, wc \in WordCounts, links \in LinkKinds,
        kc \in KeywordCounts, sc \in SentenceCounts, cc \in {0, 1}, hk \in BOOLEAN}

ConsistentBody(b) ==
    /\ b.kw_first_100 => b.keyword_count >= 1
    /\ b.word_count = 0 =>
           /\ b.keyword_count = 0
           /\ b.sentences = 0
           /\ b.consecutive_count = 0
           /\ ~b.heading_kw /\ ~b.internal_link
    /\ b.consecutive_count > 0 => b.sentences > 0

\* content is None
BodyNone ==
    [none |-> TRUE, kw_first_100 |-> FALSE, word_count |-> 0,
     internal_link |-> FALSE, external_link |-> FALSE, keyword_count |-> 0,
     sentences |-> 0, transition_count |-> 0, consecutive_count |-> 0,
     heading_kw |-> FALSE]

InitValidator ==
    /\ publications = << >>
    /\ articles = << >>
    /\ wpPosts = << >>
    /\ pc = [c \in Callers |-> "idle"]
    /\ frame = [c \in Callers |-> NoFrame]
    /\ reserved = << >>
    /\ saveLog = << >>
    /\ calls = 0
    /\ now = 0
    /\ composed = NoCall
    /\ \E body \in {b \in ValidatorBodies : ConsistentBody(b)} \cup {BodyNone},
          focus_keyphrase \in ValidatorPhrases, tk \in TextKinds, mk \in TextKinds :
           validation = [op |-> "pending", body |-> body,
                         focus_keyphrase |-> focus_keyphrase,
                         title |-> ValidatorTitle(tk, focus_keyphrase),
                         meta_description |-> ValidatorMeta(mk, focus_keyphrase)]

\* The call: the report joins the arguments.
ValidateCall ==
    /\ validation.op = "pending"
    /\ validation' =
           [op |-> "validated", body |-> validation.body,
            focus_keyphrase |-> validation.focus_keyphrase,
            title |-> validation.title,
            meta_description |-> validation.meta_description,
            report |-> ValidateYoast(validation.body, validation.focus_keyphrase,
                                     validation.title, validation.meta_description)]
    /\ UNCHANGED <<storeVars, composed>>

NextValidator == ValidateCall

SpecValidator == InitValidator /\ [][NextValidator]_vars

\* Whether the validator has returned.
Validated == validation.op = "validated"

\* C7: for every input the score of the report is passed/total * 100 and
\* is_valid is true exactly when the score is at least 90 and no check that
\* records a violation has failed; an empty or missing phrase makes is_valid
\* false whatever the score. (The except branch reports score 0, not valid.)
C7_ScoreAndValidity ==
    Validated =>
        LET r == validation.report
        IN  /\ r.path = "normal" =>
                /\ r.total_checks = Len(CheckNames)
                /\ r.passed_checks =
                       Cardinality({i \in 1..Len(CheckNames) : r.checks[CheckNames[i]]})
                /\ r.score_num * r.total_checks = r.passed_checks * 100 * r.score_den
                /\ r.is_valid <=>
                       /\ r.score_num >= GreenScore * r.score_den
                       /\ \A i \in 1..Len(MessageChecks) : r.checks[MessageChecks[i]]
            /\ r.path = "except" => ~r.is_valid /\ r.score_num = 0
            /\ ~Truthy(validation.focus_keyphrase) => ~r.is_valid

\* C7 witness: a report whose score is at least 90 and that is not valid,
\* a check that records a violation having failed under a usable phrase.
C7_Witness ==
    /\ Validated
    /\ validation.report.path = "normal"
    /\ validation.report.score_num >= GreenScore * validation.report.score_den
    /\ ~validation.report.is_valid
    /\ Len(validation.focus_keyphrase) >= MinKeyphraseLen

\* C8: the validator never raises; for every input, the empty and the
\* missing ones included, it returns a report with the per-check booleans,
\* a score within 0..100, the is_valid flag and the list of messages.
C8_AlwaysReports ==
    Validated =>
        LET r == validation.report
        IN  /\ ~r.raised
            /\ r.is_valid \in BOOLEAN
            /\ r.score_den > 0
            /\ 0 <= r.score_num /\ r.score_num <= 100 * r.score_den
            /\ \A k \in DOMAIN r.flat : r.flat[k] \in BOOLEAN
            /\ DOMAIN r.flat = DOMAIN FlatKeys(AllFalseChecks)
            /\ Len(r.errors) >= 0

\* C8 witness: a call with a missing argument (None) has returned its report.
C8_Witness ==
    /\ Validated
    /\ \/ validation.body.none
       \/ IsNone(validation.focus_keyphrase)
       \/ IsNone(validation.title)
       \/ IsNone(validation.meta_description)
    /\ ~validation.report.raised

\* the ratio the report key transition_words_30percent names
ReportedTransitionPercent == 30

\* C27: the check reported as transition_words_30percent passes exactly
\* when at least 30% of the sentences carry a transition word; a ratio of
\* 25% or more and below 30% fails it.
C27_TransitionCheckAtThirtyPercent ==
    (Validated /\ validation.report.path = "normal") =>
        (validation.report.flat.transition_words_30percent
            <=> /\ validation.body.sentences > 0
                /\ validation.body.transition_count * 100
                       >= ReportedTransitionPercent * validation.body.sentences)

\* C28: a report whose score is below 90, or that is not valid, lists at
\* least one violation message, on the normal path and on the except path.
C28_RejectionHasMessages ==
    Validated =>
        LET r == validation.report
        IN  (r.score_num < GreenScore * r.score_den \/ ~r.is_valid)
                => Len(r.errors) > 0

\* C28 witness: a report of the normal path with a score below 90 and one
\* message only, the other failed check (the temporary slug) recording none.
C28_Witness ==
    /\ Validated
    /\ validation.report.path = "normal"
    /\ validation.report.score_num < GreenScore * validation.report.score_den
    /\ ~validation.report.checks.keyphrase_in_slug
    /\ Len(validation.report.errors) = 1

-----------------------------------------------------------------------------
(* The composers on their own: every call of _optimize_seo_title and of     *)
(* _optimize_meta_description over a family of raw titles and descriptions. *)

\* the longest run of one repeated character inside a raw title
MaxTitlePad == 45

\* the longest run of one repeated character inside a raw description
MaxMetaPad == 153

\* Raw titles: a head, a run of spaces, hyphens or letters, and a tail; the
\* empty title, titles that begin with the phrase and titles over 60
\* characters are among them, and None.
RawTitles ==
    {head \o Rep(c, n) \o tail :
        head \in {<< >>, PhraseG3111, NameCanon, NameHp},
        c \in {32, 45, 120}, n \in 0..MaxTitlePad,
        tail \in {<< >>, <<120>>, TitleCanonReview}}
    \cup {NoneVal}

\* Raw descriptions: the phrase before or after a run of letters, the run
\* alone, and None.
RawMetas ==
    {IF side = "before" THEN p \o Rep(109, n)
     ELSE IF side = "after" THEN Rep(109, n) \o p
     ELSE Rep(109, n) :
        side \in {"before", "after", "without"}, p \in {PhraseG3111, NameCanon},
        n \in 0..MaxMetaPad}
    \cup {NoneVal}

MetaPhrases == {PhraseG3111, PhraseHp}

MetaBodies == {NoneVal, << >>, BodyShort, SampleParagraph}

InitComposer ==
    /\ publications = << >>
    /\ articles = << >>
    /\ wpPosts = << >>
    /\ pc = [c \in Callers |-> "idle"]
    /\ frame = [c \in Callers |-> NoFrame]
    /\ reserved = << >>
    /\ saveLog = << >>
    /\ calls = 0
    /\ now = 0
    /\ validation = NoCall
    /\ \/ \E title \in RawTitles :
              composed = [op |-> "title_pending", title |-> title,
                          focus_keyphrase |-> PhraseG3111]
       \/ \E meta_desc \in RawMetas, focus_keyphrase \in MetaPhrases,
             content \in MetaBodies :
              /\ (Len(meta_desc) >= MetaShortLen /\ ~IsNone(meta_desc)) => content = << >>
              /\ composed = [op |-> "meta_pending", meta_desc |-> meta_desc,
                             focus_keyphrase |-> focus_keyphrase, content |-> content]

\* _optimize_seo_title returns.
OptimizeSeoTitleCall ==
    /\ composed.op = "title_pending"
    /\ composed' = [op |-> "title", title |-> composed.title,
                    focus_keyphrase |-> composed.focus_keyphrase,
                    result |-> OptimizeSeoTitle(composed.title, composed.focus_keyphrase)]
    /\ UNCHANGED <<storeVars, validation>>

\* _optimize_meta_description returns.
OptimizeMetaDescriptionCall ==
    /\ composed.op = "meta_pending"
    /\ composed' = [op |-> "meta", meta_desc |-> composed.meta_desc,
                    focus_keyphrase |-> composed.focus_keyphrase,
                    content |-> composed.content,
                    result |-> OptimizeMetaDescription(composed.meta_desc,
                                   composed.focus_keyphrase, composed.content)]
    /\ UNCHANGED <<storeVars, validation>>

NextComposer ==
    \/ OptimizeSeoTitleCall
    \/ OptimizeMetaDescriptionCall

SpecComposer == InitComposer /\ [][NextComposer]_vars

\* C9: for the phrase "canon pixma g3111" and every raw title the composed
\* title has between 30 and 60 characters and contains the phrase.
C9_TitleInRange ==
    composed.op = "title" =>
        /\ MinTitleLen <= Len(composed.result)
        /\ Len(composed.result) <= MaxTitleLen
        /\ Contains(Lower(composed.result), Lower(composed.focus_keyphrase))

\* C10: for every raw description, phrase and body the composed description
\* has between 120 and 155 characters and contains the phrase, whatever the
\* case of its letters.
C10_MetaInRange ==
    composed.op = "meta" =>
        /\ MinMetaLen <= Len(composed.result)
        /\ Len(composed.result) <= MaxMetaLen
        /\ Contains(Lower(composed.result), Lower(composed.focus_keyphrase))

-----------------------------------------------------------------------------
(* The slug composers as a specification of their own: the base text and    *)
(* the phrase are drawn first, then either composer is applied to them.     *)

\* the longest run of one repeated letter inside a drawn phrase
MaxSlugPad == 52

\* "Canon PIXMA G3111 Tanque"
TextCanonTanque ==
    <<67, 97, 110, 111, 110, 32, 80, 73, 88, 77, 65, 32, 71, 51, 49, 49, 49, 32, 84, 97, 110, 113, 117, 101>>

\* "canon-pixma-g3111-tanque"
SlugCanonTanque ==
    <<99, 97, 110, 111, 110, 45, 112, 105, 120, 109, 97, 45, 103, 51, 49, 49, 49, 45, 116, 97, 110, 113, 117, 101>>

\* "Impressão à Laser"
TextAccents ==
    <<73, 109, 112, 114, 101, 115, 115, 227, 111, 32, 224, 32, 76, 97, 115, 101, 114>>

\* "!!! ### $$$"
PhraseSymbols ==
    <<33, 33, 33, 32, 35, 35, 35, 32, 36, 36, 36>>

\* "straße"
PhraseEszett ==
    <<115, 116, 114, 97, 223, 101>>

SlugTexts == {<< >>, TextCanonTanque, NameHp, TextAccents, TitleCanonReview}

\* Phrases: the sample phrases, a phrase of symbols only, a word the
\* optimizer's \w keeps, and phrases of one to four tokens of which the last
\* is a run of one letter.
SlugPhrases ==
    {<< >>, PhraseG3111, PhraseHp, PhraseAccents, PhraseSymbols, PhraseEszett}
    \cup {head \o Rep(120, n) :
            head \in {<< >>, <<104, 112, 32>>, PhraseG3111 \o <<32>>,
                      PhraseG3111 \o <<32, 112, 114, 111, 32>>},
            n \in 1..MaxSlugPad}

InitSlug ==
    /\ publications = << >>
    /\ articles = << >>
    /\ wpPosts = << >>
    /\ pc = [c \in Callers |-> "idle"]
    /\ frame = [c \in Callers |-> NoFrame]
    /\ reserved = << >>
    /\ saveLog = << >>
    /\ calls = 0
    /\ now = 0
    /\ validation = NoCall
    /\ \E text \in SlugTexts, focus_keyphrase \in SlugPhrases :
           composed = [op |-> "slug_pending", text |-> text,
                       focus_keyphrase |-> focus_keyphrase]

\* _optimize_slug_with_keyphrase returns.
OptimizeSlugWithKeyphraseCall ==
    /\ composed.op = "slug_pending"
    /\ composed' = [op |-> "slug", composer |-> "publisher", text |-> composed.text,
                    focus_keyphrase |-> composed.focus_keyphrase,
                    result |-> OptimizeSlugWithKeyphrase(composed.text,
                                   composed.focus_keyphrase)]
    /\ UNCHANGED <<storeVars, validation>>

\* generate_seo_slug returns.
GenerateSeoSlugCall ==
    /\ composed.op = "slug_pending"
    /\ composed' = [op |-> "slug", composer |-> "optimizer", text |-> composed.text,
                    focus_keyphrase |-> composed.focus_keyphrase,
                    result |-> GenerateSeoSlug(composed.text, composed.focus_keyphrase)]
    /\ UNCHANGED <<storeVars, validation>>

NextSlug ==
    \/ OptimizeSlugWithKeyphraseCall
    \/ GenerateSeoSlugCall

SpecSlug == InitSlug /\ [][NextSlug]_vars

\* C11: applied to the base text "Canon PIXMA G3111 Tanque" and the phrase
\* "canon pixma g3111" the slug composer returns "canon-pixma-g3111-tanque":
\* the tokens of the base text that follow the phrase are kept.
C11_SlugKeepsTrailingTokens ==
    (/\ composed.op = "slug"
     /\ composed.text = TextCanonTanque
     /\ composed.focus_keyphrase = PhraseG3111)
        => composed.result = SlugCanonTanque

\* the tokens of a phrase as a slug spells them
SlugTokens(phrase) ==
    LET lowered == Lower(phrase)
        kept == KeepChars([i \in 1..Len(lowered) |-> SlugFold(lowered[i])], SlugKeep)
        words == SplitOn(SpacesToHyphens(CollapseWs(kept)), 45)
    IN  {words[i] : i \in 1..Len(words)} \ {<< >>}

\* the tokens of a composed slug
SlugWords(slug) ==
    LET words == SplitOn(slug, 45)
    IN  {words[i] : i \in 1..Len(words)}

\* C20: for every base text and phrase the composed slug is made of the
\* characters a-z, 0-9 and the hyphen only, holds every token of the phrase
\* and has at most 50 characters.
C20_SlugWellFormed ==
    composed.op = "slug" =>
        /\ \A i \in 1..Len(composed.result) : IsSlugChar(composed.result[i])
        /\ Len(composed.result) <= MaxSlugLen
        /\ SlugTokens(composed.focus_keyphrase) \subseteq SlugWords(composed.result)

-----------------------------------------------------------------------------
(* The rewriting steps as a specification of their own: a body is drawn     *)
(* first, then the step is applied to it.                                   *)

\* the most sentences a drawn body has
MaxSentences == 7

\* "Além vem tinta.", "Canon faz bem." and "Canon ok.", the last one under
\* ten characters
OpenerSentences ==
    { <<65, 108, 233, 109, 32, 118, 101, 109, 32, 116, 105, 110, 116, 97, 46>>, <<67, 97, 110, 111, 110, 32, 102, 97, 122, 32, 98, 101, 109, 46>>, <<67, 97, 110, 111, 110, 32, 111, 107, 46>> }

\* the bodies of up to MaxSentences sentences, one space between them
OpenerBodies ==
    {JoinSep(sentences, <<32>>) :
        sentences \in UNION {[1..n -> OpenerSentences] : n \in 0..MaxSentences}}

\* the words of a body whose keyword density is adjusted
DensityBodyWords == 1000

\* the most paragraphs a drawn body has
MaxParagraphs == 16

\* the words of every paragraph but the last: 79 and 119 characters
ParagraphWords == {40, 60}

\* n times the word "x", one space between them
WordsPara(n) == [i \in 1..(2 * n - 1) |-> IF i % 2 = 1 THEN 120 ELSE 32]

\* bodies of DensityBodyWords words in p paragraphs, none of which names a
\* phrase: the last paragraph holds the words the others leave
DensityBodies ==
    {JoinSep([i \in 1..p |->
                 WordsPara(IF i < p THEN w ELSE DensityBodyWords - (p - 1) * w)],
             <<10, 10>>) :
        p \in 1..MaxParagraphs, w \in ParagraphWords}

\* the most items a drawn list has
MaxItems == 7

\* the most words the first sentence of a drawn paragraph has
MaxLeadWords == 26

\* "O suporte ", " pela Canon. Ele "
VoiceHead == <<79, 32, 115, 117, 112, 111, 114, 116, 101, 32>>
VoiceMiddle == <<32, 112, 101, 108, 97, 32, 67, 97, 110, 111, 110, 46, 32, 69, 108, 101, 32>>

\* bodies of one paragraph with two verb forms, passive ones among them
VoiceBodies ==
    LET forms == {ActiveVoicePatterns[k][1] : k \in {1, 2, 7, 13}}
                    \cup {<<111, 102, 101, 114, 101, 99, 101>>, <<201, 32, 71, 97, 114, 97, 110, 116, 105, 100, 111>>}
    IN  {POpen \o VoiceHead \o a \o VoiceMiddle \o b \o <<46>> \o PClose :
            a \in forms, b \in forms}
        \cup {<< >>, NoneVal}

\* an item of two words, one of MaxItemWords + 1 words and an empty one
ListItems ==
    {<<84, 105, 110, 116, 97, 32, 98, 111, 97>>, WordsPara(MaxItemWords + 1), << >>}

\* bodies of one list of up to MaxItems items, the same item n times after
\* a first one, and a body with no list
ListBodies ==
    {UlOpen \o <<62>>
        \o Join([k \in 1..n |-> LiOpen \o <<62>> \o (IF k = 1 THEN first ELSE item)
                                    \o LiClose])
        \o UlClose :
        n \in 0..MaxItems, first \in ListItems, item \in ListItems}
    \cup {BodyShort}

\* bodies whose first paragraph starts with a sentence of n words and goes
\* on with a second one, and a body of one sentence
LeadBodies ==
    {POpen \o WordsPara(n) \o SentenceSep \o <<70, 105, 109, 46>> \o PClose : n \in 1..MaxLeadWords}
    \cup {POpen \o WordsPara(n) \o <<46>> \o PClose : n \in 1..MaxLeadWords}
    \cup {BodyShort, << >>}

\* bodies under 300 words without a heading, with a heading, with two, and
\* the long body
MinLenBodies ==
    {BodyShort, << >>, SampleHeading \o BodyShort,
     SampleHeading \o BodyShort \o SampleHeading \o SampleParagraph, BodyCanon}

\* bodies the density pass has to pad: far under 300 words, without and
\* with a heading
PaddingBodies == {BodyShort, SampleHeading \o BodyShort}

\* the longest sentence given to the sentence-length passes, in words
MaxInputWords == 45

\* a sentence of n words: plain, with the connector 'e' as its tenth word,
\* or with a comma after its tenth word
WordsSentence(n, kind) ==
    JoinSep([i \in 1..n |->
                IF i = 10 /\ kind = "connector" THEN <<101>>
                ELSE IF i = 10 /\ kind = "comma" THEN <<120, 44>>
                ELSE <<120>>], <<32>>)

SentenceLengths == {5, MaxSentenceWords, MaxSentenceWords + 1, MaxInputWords - 4,
                    MaxInputWords}

\* Bodies of one or two sentences, as plain text and as a paragraph
\* element.
SentenceBodies ==
    LET one == {WordsSentence(n, kind) \o <<46>> :
                    n \in SentenceLengths, kind \in {"plain", "connector", "comma"}}
    IN  one
        \cup {s \o <<32>> \o WordsSentence(MaxSentenceWords + 2, "plain") \o <<63>> :
                  s \in one}
        \cup {POpen \o s \o PClose : s \in one}

\* the most sentences in a paragraph given to the transition passes
MaxTransitionSentences == 5

\* a sentence of six words, and one that opens with a transition
PlainSentence == WordsPara(6) \o <<46>>
LinkedSentence == <<80, 111, 114, 116, 97, 110, 116, 111, 44, 32>> \o PlainSentence

\* a paragraph of n sentences, the third of them opening with a transition
\* when linked
TransitionPara(n, linked) ==
    JoinSep([k \in 1..n |-> IF linked /\ k = 3 THEN LinkedSentence ELSE PlainSentence],
            <<32>>)

\* Bodies of one or two paragraphs of plain text, and a paragraph element.
TransitionBodies ==
    LET paras == {TransitionPara(n, linked) :
                     n \in {2, MaxTransitionSentences - 1, MaxTransitionSentences},
                     linked \in BOOLEAN}
    IN  paras
        \cup {TransitionPara(2, FALSE) \o ParaSep \o para : para \in paras}
        \cup {POpen \o para \o PClose : para \in paras}

\* '<p>Veja <a href="https://www.hp.com/x">HP</a> agora.</p>'
BodyLinked ==
    <<60, 112, 62, 86, 101, 106, 97, 32, 60, 97, 32, 104, 114, 101, 102, 61, 34,
      104, 116, 116, 112, 115, 58, 47, 47, 119, 119, 119, 46, 104, 112, 46, 99, 111,
      109, 47, 120, 34, 62, 72, 80, 60, 47, 97, 62, 32, 97, 103, 111, 114, 97, 46,
      60, 47, 112, 62>>

\* Drafts for the two pipelines: a paragraph with a link and an empty body.
PipelineBodies == {BodyLinked, << >>}

TransformerInputs ==
    {[op |-> "openers_pending", content |-> content] : content \in OpenerBodies}
    \cup {[op |-> "voice_pending", content |-> content] : content \in VoiceBodies}
    \cup {[op |-> "lists_pending", content |-> content, keyword |-> keyword] :
             content \in ListBodies, keyword \in {PhraseG3111, WordImpressora}}
    \cup {[op |-> "lead_pending", content |-> content, product_name |-> product_name] :
             content \in LeadBodies, product_name \in {NameCanon, NameHp, << >>}}
    \cup {[op |-> "density_pending", content |-> content,
           focus_keyphrase |-> focus_keyphrase] :
             content \in DensityBodies \cup PaddingBodies,
             focus_keyphrase \in {PhraseG3111, PhraseHp}}
    \cup {[op |-> "minlen_pending", content |-> content, product_name |-> product_name] :
             content \in MinLenBodies, product_name \in {NameCanon, NameHp}}
    \cup {[op |-> "links_pending", content |-> content] : content \in LeadBodies}
    \cup {[op |-> "inject_pending", content |-> content, product_name |-> product_name] :
             content \in LeadBodies, product_name \in {NameCanon, NameHp}}
    \cup {[op |-> "sentence_pending", content |-> content] :
             content \in SentenceBodies}
    \cup {[op |-> "transition_pending", content |-> content] :
             content \in TransitionBodies}
    \cup {[op |-> "pipeline_pending", content |-> content, product_name |-> NameHp] :
             content \in PipelineBodies}
    \cup {[op |-> "article_pending", article |-> a] : a \in Articles}

InitTransformer ==
    /\ publications = << >>
    /\ articles = << >>
    /\ wpPosts = << >>
    /\ pc = [c \in Callers |-> "idle"]
    /\ frame = [c \in Callers |-> NoFrame]
    /\ reserved = << >>
    /\ saveLog = << >>
    /\ calls = 0
    /\ now = 0
    /\ validation = NoCall
    /\ composed \in TransformerInputs

\* step 3 of _optimize_content_for_yoast_green has run.
DiversifyOpenersCall ==
    /\ composed.op = "openers_pending"
    /\ composed' = [op |-> "openers", content |-> composed.content,
                    result |-> DiversifyOpeners(composed.content)]
    /\ UNCHANGED <<storeVars, validation>>

\* step 6 of _optimize_content_for_yoast_green has run.
DensityStepCall ==
    /\ composed.op = "density_pending"
    /\ composed' = [op |-> "density", pass |-> "step 6", content |-> composed.content,
                    focus_keyphrase |-> composed.focus_keyphrase,
                    result |-> DensityStep(composed.content, composed.focus_keyphrase)]
    /\ UNCHANGED <<storeVars, validation>>

\* _optimize_keyword_density returns.
OptimizeKeywordDensityCall ==
    /\ composed.op = "density_pending"
    /\ composed' = [op |-> "density", pass |-> "_optimize_keyword_density",
                    content |-> composed.content,
                    focus_keyphrase |-> composed.focus_keyphrase,
                    result |-> OptimizeKeywordDensity(composed.content,
                                   composed.focus_keyphrase)]
    /\ UNCHANGED <<storeVars, validation>>

\* _convert_to_active_voice returns.
ConvertToActiveVoiceCall ==
    /\ composed.op = "voice_pending"
    /\ composed' = [op |-> "pass", pass |-> "_convert_to_active_voice",
                    content |-> composed.content,
                    result |-> ConvertToActiveVoice(composed.content)]
    /\ UNCHANGED <<storeVars, validation>>

\* _optimize_lists_enhanced returns.
OptimizeListsEnhancedCall ==
    /\ composed.op = "lists_pending"
    /\ composed' = [op |-> "pass", pass |-> "_optimize_lists_enhanced",
                    content |-> composed.content, keyword |-> composed.keyword,
                    result |-> OptimizeListsEnhanced(composed.content, composed.keyword)]
    /\ UNCHANGED <<storeVars, validation>>

\* _ensure_keyword_in_first_paragraph returns.
EnsureKeywordInFirstParagraphCall ==
    /\ composed.op = "lead_pending"
    /\ composed' = [op |-> "pass", pass |-> "_ensure_keyword_in_first_paragraph",
                    content |-> composed.content,
                    product_name |-> composed.product_name,
                    result |-> EnsureKeywordInFirstParagraph(composed.content,
                                   composed.product_name)]
    /\ UNCHANGED <<storeVars, validation>>

\* _ensure_minimum_content_length returns.
EnsureMinimumContentLengthCall ==
    /\ composed.op = "minlen_pending"
    /\ composed' = [op |-> "pass", pass |-> "_ensure_minimum_content_length",
                    content |-> composed.content,
                    product_name |-> composed.product_name,
                    result |-> EnsureMinimumContentLength(composed.content,
                                   composed.product_name)]
    /\ UNCHANGED <<storeVars, validation>>

\* _add_mandatory_internal_links returns; random.choice drew one of the
\* four links.
AddMandatoryInternalLinksCall ==
    /\ composed.op = "links_pending"
    /\ \E k \in DOMAIN InternalLinks :
           composed' = [op |-> "pass", pass |-> "_add_mandatory_internal_links",
                        content |-> composed.content,
                        result |-> AddMandatoryInternalLinks(composed.content,
                                       InternalLinks[k])]
    /\ UNCHANGED <<storeVars, validation>>

\* _ensure_external_links returns.
EnsureExternalLinksCall ==
    /\ composed.op = "inject_pending"
    /\ composed' = [op |-> "pass", pass |-> "_ensure_external_links",
                    content |-> composed.content,
                    product_name |-> composed.product_name,
                    result |-> EnsureExternalLinks(composed.content,
                                   composed.product_name)]
    /\ UNCHANGED <<storeVars, validation>>

\* The two link passes of _optimize_readability_yoast have run, one after
\* the other; random.choice drew one of the four internal links.
InjectMandatoryLinksCall ==
    /\ composed.op = "inject_pending"
    /\ \E k \in DOMAIN InternalLinks :
           composed' = [op |-> "links", content |-> composed.content,
                        product_name |-> composed.product_name,
                        result |-> InjectMandatoryLinks(composed.content,
                                       composed.product_name, InternalLinks[k])]
    /\ UNCHANGED <<storeVars, validation>>

\* _optimize_sentence_length_yoast returns; random.choice drew a
\* transition for each sentence it broke.
OptimizeSentenceLengthYoastCall ==
    /\ composed.op = "sentence_pending"
    /\ \E picks \in [1..2 -> DOMAIN YoastCutTransitions] :
           composed' = [op |-> "sentences", pass |-> "_optimize_sentence_length_yoast",
                        content |-> composed.content,
                        result |-> OptimizeSentenceLengthYoast(composed.content, picks)]
    /\ UNCHANGED <<storeVars, validation>>

\* _optimize_sentence_length_enhanced returns.
OptimizeSentenceLengthEnhancedCall ==
    /\ composed.op = "sentence_pending"
    /\ composed' = [op |-> "sentences", pass |-> "_optimize_sentence_length_enhanced",
                    content |-> composed.content,
                    result |-> OptimizeSentenceLengthEnhanced(composed.content)]
    /\ UNCHANGED <<storeVars, validation>>

\* _add_transition_words_yoast returns; random.sample drew the sentences
\* and random.choice their transitions.
AddTransitionWordsYoastCall ==
    /\ composed.op = "transition_pending"
    /\ \E draws \in BodyDraws(YoastSentenceCounts(composed.content)) :
           composed' = [op |-> "transitions", pass |-> "_add_transition_words_yoast",
                        content |-> composed.content,
                        result |-> AddTransitionWordsYoast(composed.content, draws)]
    /\ UNCHANGED <<storeVars, validation>>

\* _add_transition_words_enhanced returns; random.sample drew the
\* sentences and random.choice their transitions.
AddTransitionWordsEnhancedCall ==
    /\ composed.op = "transition_pending"
    /\ \E draws \in BodyDraws(EnhancedSentenceCounts(composed.content)) :
           composed' = [op |-> "transitions", pass |-> "_add_transition_words_enhanced",
                        content |-> composed.content,
                        result |-> AddTransitionWordsEnhanced(composed.content, draws)]
    /\ UNCHANGED <<storeVars, validation>>

\* step 2 of _optimize_content_for_yoast_green has run.
AddTransitionsCall ==
    /\ composed.op = "transition_pending"
    /\ composed' = [op |-> "transitions", pass |-> "step 2",
                    content |-> composed.content,
                    result |-> AddTransitions(composed.content)]
    /\ UNCHANGED <<storeVars, validation>>

\* _optimize_lists_yoast returns.
OptimizeListsYoastCall ==
    /\ composed.op = "lists_pending"
    /\ composed' = [op |-> "lists", pass |-> "_optimize_lists_yoast",
                    content |-> composed.content, keyword |-> composed.keyword,
                    result |-> OptimizeListsYoast(composed.content, composed.keyword)]
    /\ UNCHANGED <<storeVars, validation>>

\* generate_article has taken the body through _optimize_readability_yoast
\* and optimize_article (lines 159-162); random.choice drew the internal
\* link and the transitions, random.sample the sentences of the two
\* transition passes.
TransformationPipelineCall ==
    /\ composed.op = "pipeline_pending"
    /\ \E k \in DOMAIN InternalLinks :
         \E cleaned \in {ReadabilityLinks(composed.content, composed.product_name,
                                          InternalLinks[k])} :
         \E picks \in SentencePicks(cleaned) :
         \E head \in {ReadabilityHead(cleaned, picks)} :
         \E draws \in BodyDraws(YoastSentenceCounts(head)) :
         \E readable \in {ReadabilityTail(head, composed.product_name, draws)} :
         \E enhanced \in {EnhancedHead(readable)} :
         \E more \in BodyDraws(EnhancedSentenceCounts(enhanced)) :
             composed' = [op |-> "pipeline", content |-> composed.content,
                          product_name |-> composed.product_name,
                          readable |-> readable,
                          result |-> EnhancedTail(enhanced,
                                         ExtractPrimaryKeyword(<< >>,
                                             composed.product_name), more)]
    /\ UNCHANGED <<storeVars, validation>>

\* prepare_article_for_publication has built the title, the slug, the
\* description and the body of the article (lines 153-179).
PrepareContentCall ==
    /\ composed.op = "article_pending"
    /\ \E timestamp \in Timestamps :
           composed' = [op |-> "article", article |-> composed.article,
                        result |-> PreparedData(ArticleData[composed.article],
                                                publications, timestamp)]
    /\ UNCHANGED <<storeVars, validation>>

NextTransformer ==
    \/ TransformationPipelineCall
    \/ OptimizeListsYoastCall
    \/ AddTransitionWordsYoastCall
    \/ AddTransitionWordsEnhancedCall
    \/ AddTransitionsCall
    \/ OptimizeSentenceLengthYoastCall
    \/ OptimizeSentenceLengthEnhancedCall
    \/ EnsureMinimumContentLengthCall
    \/ EnsureExternalLinksCall
    \/ InjectMandatoryLinksCall
    \/ AddMandatoryInternalLinksCall
    \/ PrepareContentCall
    \/ ConvertToActiveVoiceCall
    \/ OptimizeListsEnhancedCall
    \/ EnsureKeywordInFirstParagraphCall
    \/ DiversifyOpenersCall
    \/ DensityStepCall
    \/ OptimizeKeywordDensityCall

SpecTransformer == InitTransformer /\ [][NextTransformer]_vars

\* len(re.sub(r'<[^>]+>', '', content).split()): the words of a body, its
\* tags left out
StrippedWords(content) == IF IsNone(content) THEN 0 ELSE WordCount(StripTags(content))

\* C12: no pass lowers the number of words of the body, its tags left out:
\* the keyphrase-in-lead pass, the list pass, the active-voice pass, the
\* repeated-opener pass and the keyword-density passes only add to it.
C12_WordCountNeverDecreases ==
    composed.op \in {"pass", "openers", "density"} =>
        StrippedWords(composed.result) >= StrippedWords(composed.content)

\* three sentences in a row of the text start with the same word, whatever
\* the case of its letters
HasOpenerRun(text) ==
    LET sentences == SplitSentences(text)
    IN  \E k \in 1..(Len(sentences) - 2) :
            /\ FirstWord(sentences[k]) # << >>
            /\ FirstWord(sentences[k]) = FirstWord(sentences[k + 1])
            /\ FirstWord(sentences[k]) = FirstWord(sentences[k + 2])

\* C13: after the repeated-opener step no three sentences in a row of the
\* body start with the same word, also when five or more did before and when
\* the word is the first word of a replacement clause such as "Além".
C13_NoTripleOpener ==
    composed.op = "openers" => ~HasOpenerRun(composed.result)

\* how often the text of a body, its tags left out, names the phrase
PhraseCount(content, focus_keyphrase) ==
    CountOccurrences(Lower(StripTags(content)), Lower(focus_keyphrase))

\* C14: the keyword-density pass applied to a body of 1000 words that does
\* not name the phrase returns a body that names it between 5 and 25 times
\* (0.5% to 2.5% of the words), whatever its paragraphs.
C14_DensityInRange ==
    (/\ composed.op = "density"
     /\ WordCount(StripTags(composed.content)) = DensityBodyWords
     /\ PhraseCount(composed.content, composed.focus_keyphrase) = 0)
        => LET found == PhraseCount(composed.result, composed.focus_keyphrase)
           IN  /\ found * 1000 >= MinDensityTenths * DensityBodyWords
               /\ found * 1000 <= MaxDensityTenths * DensityBodyWords

\* line 1497 and line 1498: the body names the shop's domain; it names the
\* domain of a manufacturer
HasInternalLink(content) == Contains(content, InternalDomain)

HasExternalLink(content) == \E domain \in ExternalDomains : Contains(content, domain)

\* C15: the article prepared from the product name "HP LaserJet Pro M404n",
\* an empty title, an empty description and the body "<p>short</p>" has a
\* title of 30 to 60 characters that holds the phrase, a description of 120
\* to 155 characters that holds the phrase, a body of 300 words or more, an
\* internal link and an external link.
C15_ShortArticleEndToEnd ==
    (/\ composed.op = "article"
     /\ ArticleData[composed.article].produto_nome = NameHp
     /\ ArticleData[composed.article].titulo = << >>
     /\ ArticleData[composed.article].meta_descricao = << >>
     /\ ArticleData[composed.article].conteudo = BodyShort)
        => LET prepared == composed.result
               phrase == Lower(prepared.focus_keyphrase)
           IN  /\ Len(prepared.title) \in MinTitleLen..MaxTitleLen
               /\ Contains(Lower(prepared.title), phrase)
               /\ Len(prepared.meta_description) \in MinMetaLen..MaxMetaLen
               /\ Contains(Lower(prepared.meta_description), phrase)
               /\ StrippedWords(prepared.content) >= MinWords
               /\ HasInternalLink(prepared.content)
               /\ HasExternalLink(prepared.content)

\* the padding passes
PaddingPasses == {"_ensure_minimum_content_length", "_optimize_keyword_density"}

\* The most characters a padding pass can append: the three sections of
\* _generate_additional_content, or the extra sections of the density pass
\* followed by its five paragraphs, each on a new line, or by its dilution
\* sections.
PaddingBudget(pass, product_name) ==
    IF pass = "_ensure_minimum_content_length"
    THEN Len(Join(AdditionalSections(product_name)))
    ELSE Len(DensityExtraContent)
             + Max2(Len(Join(NaturalContexts)) + Len(NaturalContexts),
                    Len(DilutionContent))

\* lines 1490-1492: the validator's min_words check reads the body only
\* through its number of words
MinWordsCheck(content) ==
    YoastChecks([BodyNone EXCEPT !.none = FALSE, !.word_count = StrippedWords(content)],
                << >>, << >>, << >>).min_words

HasBrandLink(content) ==
    \E i \in DOMAIN BrandLinks : Contains(content, BrandLinks[i].url)

\* C22: after the two link passes the body holds an internal link and an
\* external link to a brand's site, for every body, the ones whose
\* paragraphs are all short included.
C22_LinksInjected ==
    composed.op = "links" =>
        /\ HasInternalLink(composed.result)
        /\ HasBrandLink(composed.result)

\* the words of the longest sentence of a text
LongestSentence(content) ==
    LET pieces == SentencePieces(content)
    IN  IF pieces = << >> THEN 0
        ELSE CHOOSE m \in {WordCount(pieces[k]) : k \in DOMAIN pieces} :
                 \A k \in DOMAIN pieces : WordCount(pieces[k]) <= m

\* C23: after a sentence-length pass no sentence of the body has more than
\* 20 words, whatever the length of the sentences it was given and whether
\* or not they hold a connector or a comma to break at.
C23_NoSentenceOverTwentyWords ==
    composed.op = "sentences" =>
        LongestSentence(composed.result) <= MaxSentenceWords

\* a sentence that holds a transition word of any of the three passes
HoldsTransition(sentence) ==
    \/ CarriesTransition(sentence, GeneratorTransitionWords \cup OptimizerTransitionWords)
    \/ HasTransition(sentence)

\* the sentences of a body after the first of each paragraph, and the ones
\* of them that hold a transition word
TransitionTally(content) ==
    LET paragraphs == SplitOn(content, 10)
        sentences == [p \in 1..Len(paragraphs) |->
                         SentencePieces(StripTags(paragraphs[p]))]
        eligible == UNION {{<<p, k>> : k \in 2..Len(sentences[p])} :
                              p \in 1..Len(paragraphs)}
    IN  [eligible |-> Cardinality(eligible),
         carrying |-> Cardinality({e \in eligible :
                                      HoldsTransition(sentences[e[1]][e[2]])})]

\* C24: after a transition pass at least 30% of the sentences that are not
\* the first of their paragraph hold a transition word, or every one of
\* them does.
C24_TransitionShareReached ==
    composed.op = "transitions" =>
        LET tally == TransitionTally(composed.result)
        IN  \/ tally.carrying * 100 >= TransitionSharePercent * tally.eligible
            \/ tally.carrying = tally.eligible

\* the texts of the items of a list, their tags left out
ItemTexts(list_content) ==
    LET items == Elements(list_content, LiOpen, LiClose)
    IN  [k \in 1..Len(items) |-> Strip(StripTags(items[k].inner))]

\* a list pass has run on a body
ListPassDone ==
    \/ composed.op = "lists"
    \/ composed.op = "pass" /\ composed.pass = "_optimize_lists_enhanced"

\* C25: after a list pass every list of the body has from 3 to 6 items,
\* and every item the list had is still there, cut to its first 15 words
\* and an ellipsis when it had more than 15.
C25_ListsPaddedCappedTruncated ==
    ListPassDone =>
        LET before == Elements(composed.content, UlOpen, UlClose)
            after == Elements(composed.result, UlOpen, UlClose)
        IN  /\ Len(after) = Len(before)
            /\ \A k \in 1..Len(after) :
                   LET old == ItemTexts(before[k].inner)
                       new == ItemTexts(after[k].inner)
                   IN  /\ Len(new) >= MinListItems
                       /\ Len(new) <= MaxListItems
                       /\ \A j \in 1..Len(old) :
                              old[j] # << >> =>
                                  \E m \in 1..Len(new) : new[m] = TruncateItem(old[j])

\* the values of the href attributes of a body
HrefValues(content) ==
    {SubSeq(content, j + Len(HrefOpen), FindSub(content, Quote, j + Len(HrefOpen)) - 1) :
        j \in {i \in Occurrences(content, HrefOpen) :
                 FindSub(content, Quote, i + Len(HrefOpen)) # 0}}

\* C26: the body that leaves the two pipelines is as the link-sanitization
\* pass leaves a body, no pass after it having rewritten a link: no href
\* value holds whitespace.
C26_NoWhitespaceInLinkTargets ==
    composed.op = "pipeline" =>
        \A target \in HrefValues(composed.result) :
            \A i \in 1..Len(target) : ~IsSpace(target[i])

-----------------------------------------------------------------------------
(* The keyphrase extractors on their own: _generate_focus_keyphrase over    *)
(* the subject names, the rows of the registry and the times of the call,   *)
(* the phrase prepare_article_for_publication hands to the validator, and   *)
(* ContentGenerator._extract_keyword_from_product.                          *)

\* "de da do", "a b", "HP", "Impressora", "Canon Pixma G3111 Tanque Integrado",
\* "  "
NameStopWords == <<100, 101, 32, 100, 97, 32, 100, 111>>
NameShortTokens == <<97, 32, 98>>
NameOneShort == <<72, 80>>
NameOneWord == <<73, 109, 112, 114, 101, 115, 115, 111, 114, 97>>
NameLong == <<67, 97, 110, 111, 110, 32, 80, 105, 120, 109, 97, 32, 71, 51, 49, 49, 49, 32, 84,
      97, 110, 113, 117, 101, 32, 73, 110, 116, 101, 103, 114, 97, 100, 111>>
NameBlank == <<32, 32>>

\* subject names: none, not a str, empty, blank, made of stopwords, of
\* short tokens, of one word, of two, three and five
SubjectNames ==
    {NoneVal, NonText, << >>, NameBlank, NameStopWords, NameShortTokens, NameOneShort,
     NameOneWord, KeywordHpLaserjet, NameCanon, NameHp, NameLong}

\* "guia de"
TitleStopWords == <<103, 117, 105, 97, 32, 100, 101>>

SubjectTitles == {<< >>, TitleStopWords, TitleCanonReview}

\* the most rows the registry holds when it is asked
MaxRegistryRows == 2

\* what the publications table holds when the registry is asked: nothing,
\* or up to MaxRegistryRows publications of the Canon article
RegistryRows ==
    LET row(n) == [id |-> n, article_id |-> 1, title |-> TitleCanonReview,
                   status |-> "published", wp_post_id |-> n, created_at |-> n]
    IN  {[i \in 1..n |-> row(i)] : n \in 0..MaxRegistryRows}

InitKeyphrase ==
    /\ publications = << >>
    /\ articles = << >>
    /\ wpPosts = << >>
    /\ pc = [c \in Callers |-> "idle"]
    /\ frame = [c \in Callers |-> NoFrame]
    /\ reserved = << >>
    /\ saveLog = << >>
    /\ calls = 0
    /\ now = 0
    /\ validation = NoCall
    /\ composed \in {[op |-> "keyphrase_pending", produto_nome |-> produto_nome,
                      titulo |-> titulo] :
                        produto_nome \in SubjectNames, titulo \in SubjectTitles}

\* _generate_focus_keyphrase returns, the registry holding rows at
\* the time timestamp.
GenerateFocusKeyphraseCall ==
    /\ composed.op = "keyphrase_pending"
    /\ \E rows \in RegistryRows, timestamp \in Timestamps :
           composed' = [op |-> "keyphrase", produto_nome |-> composed.produto_nome,
                        titulo |-> composed.titulo, rows |-> rows,
                        timestamp |-> timestamp,
                        result |-> GenerateFocusKeyphrase(composed.produto_nome, rows,
                                                          timestamp)]
    /\ UNCHANGED <<storeVars, validation>>

\* prepare_article_for_publication (lines 162-182) has derived the phrase
\* from "produto_nome or title" and hands it to the validator.
PrepareKeyphraseCall ==
    /\ composed.op = "keyphrase_pending"
    /\ \E rows \in RegistryRows, timestamp \in Timestamps :
           composed' = [op |-> "keyphrase", produto_nome |-> KeyphraseSource(composed),
                        titulo |-> composed.titulo, rows |-> rows,
                        timestamp |-> timestamp,
                        result |-> GenerateFocusKeyphrase(KeyphraseSource(composed),
                                                          rows, timestamp)]
    /\ UNCHANGED <<storeVars, validation>>

\* _extract_keyword_from_product returns.
ExtractKeywordFromProductCall ==
    /\ composed.op = "keyphrase_pending"
    /\ ~IsNone(composed.produto_nome)
    /\ ~IsNonText(composed.produto_nome)
    /\ composed' = [op |-> "keyword", produto_nome |-> composed.produto_nome,
                    titulo |-> composed.titulo,
                    result |-> ExtractKeywordFromProduct(composed.produto_nome)]
    /\ UNCHANGED <<storeVars, validation>>

NextKeyphrase ==
    \/ GenerateFocusKeyphraseCall
    \/ PrepareKeyphraseCall
    \/ ExtractKeywordFromProductCall

SpecKeyphrase == InitKeyphrase /\ [][NextKeyphrase]_vars

C19_KeyphraseNeverEmpty ==
    composed.op = "keyphrase" =>
        /\ ~IsNone(composed.result)
        /\ Strip(composed.result) # << >>

\* the phrase of an article whose name is empty and whose title is made of
\* stopwords only
C19_Witness ==
    /\ composed.op = "keyphrase"
    /\ composed.titulo = TitleStopWords
    /\ composed.produto_nome = TitleStopWords
    /\ KeyphraseWords(composed.produto_nome) = << >>

-----------------------------------------------------------------------------
(* Properties of the registry, the review store and the publisher, stated   *)
(* over the behaviours of Spec.                                              *)

\* C1: the check and the reservation of a phrase are atomic: no two calls
\* of the registry that ask for the same phrase are given the same phrase.
C1_NoSharedKeyphrase ==
    \A i, j \in DOMAIN reserved :
        (i # j /\ reserved[i].asked = reserved[j].asked)
            => reserved[i].got # reserved[j].got

\* C2: every phrase the registry has returned is in the persisted set of
\* used phrases once the call that asked for it has ended.
C2_ReturnedPhraseRecorded ==
    \A i \in DOMAIN reserved :
        pc[reserved[i].caller] = "idle"
            => reserved[i].got \in UsedKeyphrasesQuery(publications).used

C4_NonDuplicateStored ==
    \A i \in DOMAIN saveLog :
        /\ saveLog[i].duplicate => saveLog[i].outcome = "duplicate"
        /\ ~saveLog[i].duplicate => saveLog[i].outcome = "stored"

\* C5: when the query of the registry or of the review store raises, the
\* engine fails closed: no phrase is handed out as unused and no article
\* goes on to the insert as a non-duplicate.
C5_FailsClosed ==
    /\ \A i \in DOMAIN reserved : reserved[i].query_raised => IsNone(reserved[i].got)
    /\ \A c \in Callers : pc[c] = "insert" => ~frame[c].check_raised

\* C6: only accepted articles are handed on: every post sent to WordPress
\* is of an article whose validation report says is_valid, and no article
\* reported duplicate is stored by the review store.
C6_OnlyAcceptedHandedOn ==
    /\ \A i \in DOMAIN wpPosts : wpPosts[i].is_valid
    /\ \A i \in DOMAIN saveLog : saveLog[i].duplicate => saveLog[i].outcome # "stored"

\* how a call of save_article_for_review that stores nothing ends: the
\* ValueError of line 90 for a duplicate and the exception of the INSERT,
\* raised again at line 131
RaisedOutcomes == {"duplicate", "error"}

C18_ReserveQualifiesUsedPhrase ==
    \A i \in DOMAIN reserved :
        LET used == {reserved[j].got : j \in 1..(i - 1)}
        IN  \E timestamp \in Timestamps :
                reserved[i].got
                    = EnsureUniqueKeyphrase(reserved[i].asked, used, timestamp)

\* the articles whose fingerprint _calculate_content_hash has been computed
\* of: the calls of save_article_for_review that are past their check
Fingerprinted ==
    {saveLog[i].article : i \in DOMAIN saveLog}
        \cup {frame[c].article : c \in {d \in Callers : pc[d] = "insert"}}

\* C29: the fingerprint is computed on the transformed article only: once
\* _calculate_content_hash has been computed of an article, no later pass
\* changes its title or its body, so prepare_article_for_publication hands
\* on the title and the body that were fingerprinted.
C29_FingerprintOfFinalText ==
    [][\A c \in Callers :
          (/\ pc[c] = "prepare"
           /\ pc'[c] = "lookup"
           /\ frame[c].article \in Fingerprinted)
              => LET article_data == ArticleData[frame[c].article]
                     prepared == frame'[c].prepared
                 IN  /\ prepared.title = article_data.titulo
                     /\ OptimizeContentForYoastGreen(article_data.conteudo,
                            prepared.focus_keyphrase, article_data.produto_nome)
                          = article_data.conteudo]_vars

\* C30: WordPress holds at most one post of an article, however many
\* publish_article calls were made for it and however they interleave.
C30_AtMostOnePostPerArticle ==
    \A i, j \in DOMAIN wpPosts :
        wpPosts[i].article_id = wpPosts[j].article_id => i = j

=============================================================================
